---- MODULE Spec2Model ----
(***************************************************************************)
(* A model of the helper RPC client of the crumblecracker Python bindings: *)
(* the wire codec (_ipc_protocol.py), the exception mapping (errors.py)    *)
(* and the synchronous transport client IPCClient (_ipc_client.py), run by *)
(* several threads against a helper process at the other end of a Unix     *)
(* stream socket.                                                          *)
(***************************************************************************)
EXTENDS Integers, Sequences, FiniteSets, TLC

\* ------------------------------------------------------------------ bounds
\* Threads that use one IPCClient.
NumThreads == 2
\* Operations (call or close) invoked on the client in one behaviour.
MaxOps == 2
\* spawn_helper invocations in one behaviour.
MaxSpawns == 2
\* The connect deadline of spawn_helper (10.0 s), in sleeps of the retry loop.
DeadlineTicks == 2
\* Operations invoked on one IPCBackend in one behaviour.
MaxFacadeOps == 2
\* Length of the arbitrary buffers given to a Decoder.
MaxBufLen == 4
\* Reads made on one Decoder.
MaxReads == 3
\* Operations on the objects of the client API in one behaviour.
MaxApiOps == 4
\* Elements of a sequence-valued option (mounts, excludes, build arguments).
MaxItems == 2
\* Operations on one Cmd in one behaviour.
MaxCmdOps == 3
\* The most operations invoked on one File, Snapshot, Listener or Conn.
MaxResourceOps == 3
\* The most operations invoked on one Instance, its construction included.
MaxInstanceOps == 4

Threads == 1..NumThreads
NoThread == 0

\* ------------------------------------------------- constants of the source
HEADER_SIZE == 6
MSG_INSTANCE_NEW == 256
MSG_INSTANCE_CLOSE == 257
MSG_INSTANCE_WAIT == 258
MSG_INSTANCE_ID == 259
MSG_INSTANCE_IS_RUNNING == 260
MSG_INSTANCE_SET_CONSOLE == 261
MSG_INSTANCE_SET_NETWORK == 262
MSG_INSTANCE_EXEC == 263
MSG_FS_OPEN == 512
MSG_FS_READ_FILE == 515
MSG_FILE_CLOSE == 768
MSG_FILE_READ == 769
MSG_FILE_WRITE == 770
MSG_FILE_SEEK == 771
MSG_FILE_SYNC == 772
MSG_FILE_TRUNCATE == 773
MSG_FILE_STAT == 774
MSG_FILE_NAME == 775
MSG_RESPONSE == 65280
MSG_ERROR == 65281
ERR_CODE_OK == 0
\* CCError("Client closed", code=4)
CODE_CLIENT_CLOSED == 4
\* CCError("Connection closed by helper", code=7)
CODE_CONNECTION_CLOSED == 7
\* CCError("Unknown error from helper", code=99)
CODE_UNKNOWN_ERROR == 99
CODE_OCI_CLIENT_CLOSED == 4
\* CCError("Cmd has already been started", code=2)
CODE_RESOURCE_CLOSED == 4
CODE_CMD_STARTED == 2
\* CCError("Cmd has not been started", code=2)
CODE_CMD_NOT_STARTED == 2
\* for _ in range(5) in _remove_socket
REMOVE_ATTEMPTS_WINDOWS == 5
\* HelperNotFoundError: super().__init__(..., code=7)
CODE_HELPER_NOT_FOUND == 7
\* spawn_helper: CCError(f"Failed to connect to cc-helper: {last_err}", code=7)
CODE_CONNECT_FAILED == 7

\* ------------------------------------------------------------ errors.py
\* Python's None for an optional string: <<>> is None, <<s>> is the string s.
None == <<>>
Some(s) == <<s>>

\* _ERROR_MAP.get(code, CCError)
ErrorClassOf(code) ==
    CASE code = 1 -> "InvalidHandleError"
      [] code = 2 -> "InvalidArgumentError"
      [] code = 3 -> "NotRunningError"
      [] code = 4 -> "AlreadyClosedError"
      [] code = 5 -> "TimeoutError"
      [] code = 6 -> "HypervisorUnavailableError"
      [] code = 7 -> "IOError"
      [] code = 8 -> "NetworkError"
      [] code = 9 -> "CancelledError"
      [] OTHER -> "CCError"

\* The outcome of an operation: kind is "none" (not ended), "return" or
\* "raise"; lit is the message literal of an exception raised by the client
\* itself, message the decoded text of a remote one.
Outcome(kind, cls, code, lit, message, op, path, value) ==
    [kind |-> kind, cls |-> cls, code |-> code, lit |-> lit,
     message |-> message, op |-> op, path |-> path, value |-> value]

NoOutcome == Outcome("none", "", 0, "", <<>>, None, None, <<>>)
Return(value) == Outcome("return", "", 0, "", <<>>, None, None, value)
\* CCError(message, code=code): the base class, whatever the code
CCError(lit, code) == Outcome("raise", "CCError", code, lit, <<>>, None, None, <<>>)
\* an exception that is not a CCError (OSError, ValueError, ...)
Foreign(cls) == Outcome("raise", cls, 0, "", <<>>, None, None, <<>>)

error_from_code(code, message, op, path) ==
    Outcome("raise", ErrorClassOf(code), code, "", message, op, path, <<>>)

\* ------------------------------------------------------ _ipc_protocol.py
\* struct.pack of an unsigned integer, big-endian, n bytes
BE(v, n) == [i \in 1..n |-> (v \div (256 ^ (n - i))) % 256]

RECURSIVE FromBE(_)
\* struct.unpack of an unsigned big-endian integer
FromBE(bs) ==
    IF bs = <<>> THEN 0 ELSE FromBE(SubSeq(bs, 1, Len(bs) - 1)) * 256 + bs[Len(bs)]

\* encode_header leaving the length field at zero
encode_header_no_length(msg_type, payload_len) == BE(msg_type, 2) \o BE(0, 4)

\* struct.pack("!HI", msg_type, payload_len)
encode_header(msg_type, payload_len) == BE(msg_type, 2) \o BE(payload_len, 4)

\* decode_header taking the length from three bytes
decode_header_short_length(data) ==
    [msg_type |-> FromBE(SubSeq(data, 1, 2)),
     payload_len |-> FromBE(SubSeq(data, 3, HEADER_SIZE - 1))]

\* struct.unpack("!HI", data[:HEADER_SIZE])
decode_header(data) ==
    [msg_type |-> FromBE(SubSeq(data, 1, 2)),
     payload_len |-> FromBE(SubSeq(data, 3, HEADER_SIZE))]

\* Encoder.string: 4-byte length prefix and the UTF-8 bytes (given as bytes)
Encoder_string(bytes) == BE(Len(bytes), 4) \o bytes

IsContinuation(b) == b >= 128 /\ b <= 191

RECURSIVE Utf8Decode(_)
\* bytes.decode("utf-8"): the code points, or not ok (UnicodeDecodeError)
Utf8Decode(bs) ==
    IF bs = <<>> THEN [ok |-> TRUE, v |-> <<>>]
    ELSE LET b == bs[1]
             n == Len(bs)
             need == IF b < 128 THEN 1
                     ELSE IF b >= 194 /\ b <= 223 THEN 2
                     ELSE IF b >= 224 /\ b <= 239 THEN 3
                     ELSE IF b >= 240 /\ b <= 244 THEN 4
                     ELSE 0
             bad == [ok |-> FALSE, v |-> <<>>]
         IN  IF need = 0 \/ need > n THEN bad
             ELSE IF \E i \in 2..need : ~IsContinuation(bs[i]) THEN bad
             ELSE IF \/ (b = 224 /\ bs[2] < 160)
                     \/ (b = 237 /\ bs[2] > 159)
                     \/ (b = 240 /\ bs[2] < 144)
                     \/ (b = 244 /\ bs[2] > 143) THEN bad
             ELSE LET cp == CASE need = 1 -> b
                              [] need = 2 -> (b - 192) * 64 + (bs[2] - 128)
                              [] need = 3 -> (b - 224) * 4096 + (bs[2] - 128) * 64
                                             + (bs[3] - 128)
                              [] OTHER -> (b - 240) * 262144 + (bs[2] - 128) * 4096
                                          + (bs[3] - 128) * 64 + (bs[4] - 128)
                      rest == Utf8Decode(SubSeq(bs, need + 1, n))
                  IN  IF rest.ok THEN [ok |-> TRUE, v |-> <<cp>> \o rest.v] ELSE bad

\* A Decoder read at position pos of buf: ok with the value and the new
\* position, or not ok with the exception class (_check raised ValueError).
DecOk(v, pos) == [ok |-> TRUE, v |-> v, pos |-> pos, exc |-> ""]
DecFail(exc, pos) == [ok |-> FALSE, v |-> 0, pos |-> pos, exc |-> exc]

\* Decoder._check: self._pos + n > len(self._buf) raises
Decoder_check(buf, pos, n) == pos + n <= Len(buf)

Decoder_uint8(buf, pos) ==
    IF Decoder_check(buf, pos, 1) THEN DecOk(buf[pos + 1], pos + 1)
    ELSE DecFail("ValueError", pos)

Decoder_uint32(buf, pos) ==
    IF Decoder_check(buf, pos, 4) THEN DecOk(FromBE(SubSeq(buf, pos + 1, pos + 4)), pos + 4)
    ELSE DecFail("ValueError", pos)

\* Decoder.string returning the bytes as they are
Decoder_string_undecoded(buf, pos) ==
    LET length == Decoder_uint32(buf, pos) IN
    IF ~length.ok THEN length
    ELSE IF ~Decoder_check(buf, length.pos, length.v) THEN DecFail("ValueError", length.pos)
    ELSE DecOk(SubSeq(buf, length.pos + 1, length.pos + length.v), length.pos + length.v)

Decoder_string(buf, pos) ==
    LET length == Decoder_uint32(buf, pos) IN
    IF ~length.ok THEN length
    ELSE IF ~Decoder_check(buf, length.pos, length.v) THEN DecFail("ValueError", length.pos)
    ELSE LET s == Utf8Decode(SubSeq(buf, length.pos + 1, length.pos + length.v)) IN
         IF s.ok THEN DecOk(s.v, length.pos + length.v)
         ELSE DecFail("UnicodeDecodeError", length.pos)

RECURSIVE Utf8Encode(_)
\* str.encode("utf-8") of a string given by its code points: the bytes, or
\* not ok (UnicodeEncodeError: a surrogate cannot be encoded)
Utf8Encode(cps) ==
    IF cps = <<>> THEN [ok |-> TRUE, v |-> <<>>]
    ELSE LET c == cps[1]
             first == IF c < 128 THEN <<c>>
                      ELSE IF c < 2048 THEN <<192 + (c \div 64), 128 + (c % 64)>>
                      ELSE IF c < 65536
                      THEN <<224 + (c \div 4096), 128 + ((c \div 64) % 64), 128 + (c % 64)>>
                      ELSE <<240 + (c \div 262144), 128 + ((c \div 4096) % 64),
                             128 + ((c \div 64) % 64), 128 + (c % 64)>>
             rest == Utf8Encode(Tail(cps))
         IN  IF (c >= 55296 /\ c <= 57343) \/ ~rest.ok THEN [ok |-> FALSE, v |-> <<>>]
             ELSE [ok |-> TRUE, v |-> first \o rest.v]

\* Encoder.string of a string given by its code points
Encoder_str(s) == Encoder_string(Utf8Encode(s).v)

\* self.string() with nothing after it
OrNone_always_some(s) == Some(s)

\* self.string() or None
OrNone(s) == IF s = <<>> THEN None ELSE Some(s)

\* Decoder(buf).error(): kind "return" with value <<>> stands for None (code
\* 0); otherwise the exception built by error_from_code, or the exception
\* the decoder itself raised.
Decoder_error(buf) ==
    LET code == Decoder_uint8(buf, 0) IN
    IF ~code.ok THEN Foreign(code.exc)
    ELSE IF code.v = ERR_CODE_OK THEN Return(<<>>)
    ELSE LET message == Decoder_string(buf, code.pos) IN
         IF ~message.ok THEN Foreign(message.exc)
         ELSE LET op == Decoder_string(buf, message.pos) IN
              IF ~op.ok THEN Foreign(op.exc)
              ELSE LET path == Decoder_string(buf, op.pos) IN
                   IF ~path.ok THEN Foreign(path.exc)
                   ELSE error_from_code(code.v, message.v, OrNone(op.v), OrNone(path.v))

\* Where Decoder(buf).error() leaves the decoder when it does not raise: after
\* the code byte alone when the code is 0, after the three strings otherwise.
Decoder_error_pos(buf) ==
    LET code == Decoder_uint8(buf, 0) IN
    IF code.v = ERR_CODE_OK THEN code.pos
    ELSE Decoder_string(buf, Decoder_string(buf, Decoder_string(buf, code.pos).pos).pos).pos

\* --------------------------------------- _ipc_client.py: helper discovery
\* platform.system(): the three the code names, and any other.
Systems == {"Darwin", "Linux", "Windows", "Other"}

\* Paths are sequences of components; the empty string is the empty path.
Join(dir, name) == dir \o <<name>>
Dirname(path) == SubSeq(path, 1, Len(path) - 1)

\* os.path.dirname(os.path.abspath(__file__))
PkgDir == <<"site-packages", "crumblecracker">>
\* os.path.expanduser("~")
HomeDir == <<"home", "user">>
\* a value of CC_HELPER_PATH
OverridePath == <<"opt", "cc", "cc-helper">>
\* a value of LOCALAPPDATA
LocalAppData == <<"Users", "user", "AppData", "Local">>
\* a result of shutil.which("cc-helper")
WhichPath == <<"usr", "bin", "cc-helper">>
\* searched.append("$PATH")
PathMarker == <<"$PATH">>

\* helper_name = f"cc-helper{exe_suffix}"
helper_name(system) == IF system = "Windows" THEN "cc-helper.exe" ELSE "cc-helper"

\* "if env_path:", "if app_data:", "if found:" on an optional string
Truthy(opt) == opt # None /\ opt[1] # <<>>

\* os.path.isfile(path) in the environment e
isfile(e, path) == path \in e.files

\* The state of the search after a strategy: "return path, []" or the list
\* of the locations searched so far.
Hit(path) == [hit |-> TRUE, path |-> path, searched |-> <<>>]
Miss(searched) == [hit |-> FALSE, path |-> <<>>, searched |-> searched]

\* 1. CC_HELPER_PATH environment variable
find_override(e, searched) ==
    IF Truthy(e.env_path)
    THEN IF isfile(e, e.env_path[1]) THEN Hit(e.env_path[1])
         ELSE Miss(Append(searched, e.env_path[1]))
    ELSE Miss(searched)

\* 2. Adjacent to this package directory: [pkg_dir, dirname(pkg_dir)]
find_package(e, searched) ==
    LET p1 == Join(PkgDir, helper_name(e.system))
        p2 == Join(Dirname(PkgDir), helper_name(e.system))
    IN  IF isfile(e, p1) THEN Hit(p1)
        ELSE IF isfile(e, p2) THEN Hit(p2)
        ELSE Miss(searched \o <<p1, p2>>)

\* the directory of strategy 3, or None where the code has none
user_dir(e) ==
    CASE e.system = "Darwin" ->
            Some(HomeDir \o <<"Library", "Application Support", "cc", "bin">>)
      [] e.system = "Linux" -> Some(HomeDir \o <<".local", "share", "cc", "bin">>)
      [] e.system = "Windows" /\ e.localappdata # <<>> ->
            Some(e.localappdata \o <<"cc", "bin">>)
      [] OTHER -> None

\* 3. Platform-specific user directory
find_user(e, searched) ==
    IF user_dir(e) = None THEN Miss(searched)
    ELSE LET path == Join(user_dir(e)[1], helper_name(e.system)) IN
         IF isfile(e, path) THEN Hit(path) ELSE Miss(Append(searched, path))

\* 4. System PATH
find_path(e, searched) ==
    IF Truthy(e.which) THEN Hit(e.which[1]) ELSE Miss(Append(searched, PathMarker))

\* What _find_helper returns: (path, searched), path None if not found.
FindResult(r) == [path |-> IF r.hit THEN Some(r.path) ELSE None, searched |-> r.searched]

\* A search that looks in the user directory before the package: a variant
\* the properties must reject.
find_helper_user_first(e) ==
    LET r1 == find_override(e, <<>>) IN
    IF r1.hit THEN FindResult(r1)
    ELSE LET r2 == find_user(e, r1.searched) IN
         IF r2.hit THEN FindResult(r2)
         ELSE LET r3 == find_package(e, r2.searched) IN
              IF r3.hit THEN FindResult(r3)
              ELSE FindResult(find_path(e, r3.searched))

\* _find_helper()
find_helper(e) ==
    LET r1 == find_override(e, <<>>) IN
    IF r1.hit THEN FindResult(r1)
    ELSE LET r2 == find_package(e, r1.searched) IN
         IF r2.hit THEN FindResult(r2)
         ELSE LET r3 == find_user(e, r2.searched) IN
              IF r3.hit THEN FindResult(r3)
              ELSE FindResult(find_path(e, r3.searched))

\* The locations at which a helper file may lie on a platform.
FileLocations(system) ==
    {OverridePath,
     Join(PkgDir, helper_name(system)),
     Join(Dirname(PkgDir), helper_name(system))}
    \cup (CASE system = "Darwin" ->
                 {HomeDir \o <<"Library", "Application Support", "cc", "bin", "cc-helper">>}
            [] system = "Linux" -> {HomeDir \o <<".local", "share", "cc", "bin", "cc-helper">>}
            [] system = "Windows" -> {LocalAppData \o <<"cc", "bin", "cc-helper.exe">>}
            [] OTHER -> {})

\* The environments of the search: the platform, CC_HELPER_PATH (unset,
\* empty or a path), LOCALAPPDATA (empty or a path), which of the locations
\* hold a file, and what the executable search path yields.
FindEnvs ==
    UNION {[system : {sy},
            env_path : {None, Some(<<>>), Some(OverridePath)},
            localappdata : {<<>>, LocalAppData},
            files : SUBSET FileLocations(sy),
            which : {None, Some(WhichPath)}] : sy \in Systems}

\* An environment in which nothing is searched for.
NoEnv ==
    [system |-> "Linux", env_path |-> None, localappdata |-> <<>>, files |-> {},
     which |-> None]
NotFoundYet == [ran |-> FALSE, path |-> None, searched |-> <<>>]

\* ------------------------------------------- _ipc_client.py: spawn_helper
\* os.getpid()
Pid == 4242
\* Values of time.time_ns()
TimeStamps == {1000, 2000}

\* The path _next_socket_path builds from the count: h-{pid}-{count}.sock
\* under <tmp>/cc on Windows, cc-helper-{pid}-{time_ns}-{count}.sock under
\* <tmp> elsewhere (ns is 0 where the name has no time in it).
next_socket_path(windows, count, ns) ==
    [dir |-> IF windows THEN <<"tmp", "cc">> ELSE <<"tmp">>,
     prefix |-> IF windows THEN "h" ELSE "cc-helper",
     pid |-> Pid, ns |-> IF windows THEN 0 ELSE ns, count |-> count]
NoPath == [dir |-> <<>>, prefix |-> "", pid |-> 0, ns |-> 0, count |-> 0]

\* What spawn_helper ended with: a client (its index in clients) or an
\* exception with its fields.
SpawnOutcome(kind, cls, code, searched_paths, last_err, client) ==
    [kind |-> kind, cls |-> cls, code |-> code, searched_paths |-> searched_paths,
     last_err |-> last_err, client |-> client]
NoSpawnOutcome == SpawnOutcome("none", "", 0, <<>>, None, 0)
SpawnReturn(client) == SpawnOutcome("return", "", 0, <<>>, None, client)
\* an exception of spawn_helper that is not a CCError
SpawnForeign(cls) == SpawnOutcome("raise", cls, 0, <<>>, None, 0)

\* An error that names only the first location: a variant the properties
\* must reject.
HelperNotFoundError_first_only(searched_paths) ==
    SpawnOutcome("raise", "HelperNotFoundError", CODE_HELPER_NOT_FOUND,
                 SubSeq(searched_paths, 1, 1), None, 0)

\* HelperNotFoundError(searched_paths)
HelperNotFoundError(searched_paths) ==
    SpawnOutcome("raise", "HelperNotFoundError", CODE_HELPER_NOT_FOUND,
                 searched_paths, None, 0)

\* CCError(f"Failed to connect to cc-helper: {last_err}", code=7)
ConnectFailed(last_err) ==
    SpawnOutcome("raise", "CCError", CODE_CONNECT_FAILED, <<>>, last_err, 0)

\* _socket_counter_lock taken by nobody: a variant the properties must reject.
CounterLockFree_absent(holder) == TRUE

\* "with _socket_counter_lock": blocks while another thread holds it
CounterLockFree(holder) == holder = NoThread

\* A sleep that takes no time: a variant the properties must reject.
after_sleep_no_time(elapsed) == elapsed

\* time.sleep(0.01): the clock is one tick further
after_sleep(elapsed) == elapsed + 1

\* while time.monotonic() < deadline
before_deadline(elapsed) == elapsed < DeadlineTicks

\* A cleanup that leaves the child alone: a variant the properties must reject.
after_loop_no_kill == "remove"

\* What follows the retry loop: process.kill() and process.wait() first
after_loop == "kill"

\* ------------------------------------------------- _ipc_backend.py: facade
\* struct.unpack("!q"): 8 bytes, big-endian, two's complement. The integer is
\* kept as its four base-65536 digits, most significant first, the first one
\* signed: its value is d1 * 65536^3 + d2 * 65536^2 + d3 * 65536 + d4.
Int64Of(bs) ==
    LET digit(i) == bs[2 * i - 1] * 256 + bs[2 * i] IN
    <<IF digit(1) >= 32768 THEN digit(1) - 65536 ELSE digit(1),
      digit(2), digit(3), digit(4)>>

Decoder_int64(buf, pos) ==
    IF Decoder_check(buf, pos, 8) THEN DecOk(Int64Of(SubSeq(buf, pos + 1, pos + 8)), pos + 8)
    ELSE DecFail("ValueError", pos)

\* Decoder.decode_bool: self.uint8() != 0
Decoder_decode_bool(buf, pos) ==
    LET v == Decoder_uint8(buf, pos) IN
    IF v.ok THEN DecOk(v.v # 0, v.pos) ELSE v

\* buf[i:j] of Python: the bytes there are between the two offsets
Slice(buf, i, j) == SubSeq(buf, i + 1, IF j <= Len(buf) THEN j ELSE Len(buf))

\* read_bytes without self._check(length)
Decoder_read_bytes_unchecked(buf, pos) ==
    LET length == Decoder_uint32(buf, pos) IN
    IF ~length.ok THEN length
    ELSE DecOk(Slice(buf, length.pos, length.pos + length.v), length.pos + length.v)

\* Decoder.read_bytes: a 4-byte length and that many bytes, undecoded
Decoder_read_bytes(buf, pos) ==
    LET length == Decoder_uint32(buf, pos) IN
    IF ~length.ok THEN length
    ELSE IF ~Decoder_check(buf, length.pos, length.v) THEN DecFail("ValueError", length.pos)
    ELSE DecOk(SubSeq(buf, length.pos + 1, length.pos + length.v), length.pos + length.v)

\* struct.unpack("!Q"): 8 bytes, big-endian, unsigned, kept as four
\* base-65536 digits like an int64 but the first one unsigned.
Uint64Of(bs) ==
    LET digit(i) == bs[2 * i - 1] * 256 + bs[2 * i] IN
    <<digit(1), digit(2), digit(3), digit(4)>>

Decoder_uint64(buf, pos) ==
    IF Decoder_check(buf, pos, 8) THEN DecOk(Uint64Of(SubSeq(buf, pos + 1, pos + 8)), pos + 8)
    ELSE DecFail("ValueError", pos)

Decoder_uint16(buf, pos) ==
    IF Decoder_check(buf, pos, 2) THEN DecOk(FromBE(SubSeq(buf, pos + 1, pos + 2)), pos + 2)
    ELSE DecFail("ValueError", pos)

\* struct.unpack("!i"): 4 bytes, big-endian, two's complement
Int32Of(bs) ==
    IF bs[1] >= 128
    THEN (FromBE(<<bs[1] - 128, bs[2], bs[3], bs[4]>>) - 2147483647) - 1
    ELSE FromBE(bs)

Decoder_int32(buf, pos) ==
    IF Decoder_check(buf, pos, 4) THEN DecOk(Int32Of(SubSeq(buf, pos + 1, pos + 4)), pos + 4)
    ELSE DecFail("ValueError", pos)

RECURSIVE Decoder_strings(_, _, _)
\* [self.string() for _ in range(count)]
Decoder_strings(count, buf, pos) ==
    IF count = 0 THEN DecOk(<<>>, pos)
    ELSE LET s == Decoder_string(buf, pos) IN
         IF ~s.ok THEN s
         ELSE LET rest == Decoder_strings(count - 1, buf, s.pos) IN
              IF rest.ok THEN DecOk(<<s.v>> \o rest.v, rest.pos) ELSE rest

\* Decoder.string_slice
Decoder_string_slice(buf, pos) ==
    LET count == Decoder_uint32(buf, pos) IN
    IF ~count.ok THEN count ELSE Decoder_strings(count.v, buf, count.pos)

\* One Decoder read by the name of its method.
Decoder_read(method, buf, pos) ==
    CASE method = "string" -> Decoder_string(buf, pos)
      [] method = "decode_bool" -> Decoder_decode_bool(buf, pos)
      [] method = "read_bytes" -> Decoder_read_bytes(buf, pos)
      [] method = "uint32" -> Decoder_uint32(buf, pos)
      [] method = "uint64" -> Decoder_uint64(buf, pos)
      [] method = "uint8" -> Decoder_uint8(buf, pos)
      [] method = "uint16" -> Decoder_uint16(buf, pos)
      [] method = "int32" -> Decoder_int32(buf, pos)
      [] method = "string_slice" -> Decoder_string_slice(buf, pos)
      [] OTHER -> Decoder_int64(buf, pos)

\* Decoder.file_info: the reads it makes, in the order of the dict display
file_info == <<"string", "int64", "uint32", "int64", "decode_bool", "decode_bool">>

RECURSIVE Decoder_reads(_, _, _)
\* The reads of methods in turn from pos: the values read, or the exception of
\* the first read that raised.
Decoder_reads(methods, buf, pos) ==
    IF methods = <<>> THEN [ok |-> TRUE, vals |-> <<>>, exc |-> ""]
    ELSE LET r == Decoder_read(Head(methods), buf, pos) IN
         IF ~r.ok THEN [ok |-> FALSE, vals |-> <<>>, exc |-> r.exc]
         ELSE LET rest == Decoder_reads(Tail(methods), buf, r.pos) IN
              IF rest.ok THEN [ok |-> TRUE, vals |-> <<r.v>> \o rest.vals, exc |-> ""]
              ELSE rest

\* The operations of IPCBackend on an instance and on a file handle.
InstanceOps ==
    {"instance_new", "instance_close", "instance_wait", "instance_id",
     "instance_is_running", "instance_set_console", "instance_set_network",
     "instance_exec"}
FileOps ==
    {"file_close", "file_read", "file_write", "file_seek", "file_sync",
     "file_truncate", "file_stat", "file_name"}
FsOps == {"fs_open"}
FacadeOps == InstanceOps \cup FileOps \cup FsOps

\* instance_wait sending the code of instance_close.
facade_msg_wait_as_close(op) ==
    CASE op = "instance_new" -> MSG_INSTANCE_NEW
      [] op = "instance_close" -> MSG_INSTANCE_CLOSE
      [] op = "instance_wait" -> MSG_INSTANCE_CLOSE
      [] op = "instance_id" -> MSG_INSTANCE_ID
      [] op = "instance_is_running" -> MSG_INSTANCE_IS_RUNNING
      [] op = "instance_set_console" -> MSG_INSTANCE_SET_CONSOLE
      [] op = "instance_set_network" -> MSG_INSTANCE_SET_NETWORK
      [] op = "instance_exec" -> MSG_INSTANCE_EXEC
      [] op = "file_close" -> MSG_FILE_CLOSE
      [] op = "file_read" -> MSG_FILE_READ
      [] op = "file_write" -> MSG_FILE_WRITE
      [] op = "file_seek" -> MSG_FILE_SEEK
      [] op = "file_sync" -> MSG_FILE_SYNC
      [] op = "file_truncate" -> MSG_FILE_TRUNCATE
      [] op = "file_stat" -> MSG_FILE_STAT
      [] op = "file_name" -> MSG_FILE_NAME
      [] OTHER -> MSG_FS_OPEN

\* The first argument of the method's self.client.call(...).
facade_msg(op) ==
    CASE op = "instance_new" -> MSG_INSTANCE_NEW
      [] op = "instance_close" -> MSG_INSTANCE_CLOSE
      [] op = "instance_wait" -> MSG_INSTANCE_WAIT
      [] op = "instance_id" -> MSG_INSTANCE_ID
      [] op = "instance_is_running" -> MSG_INSTANCE_IS_RUNNING
      [] op = "instance_set_console" -> MSG_INSTANCE_SET_CONSOLE
      [] op = "instance_set_network" -> MSG_INSTANCE_SET_NETWORK
      [] op = "instance_exec" -> MSG_INSTANCE_EXEC
      [] op = "file_close" -> MSG_FILE_CLOSE
      [] op = "file_read" -> MSG_FILE_READ
      [] op = "file_write" -> MSG_FILE_WRITE
      [] op = "file_seek" -> MSG_FILE_SEEK
      [] op = "file_sync" -> MSG_FILE_SYNC
      [] op = "file_truncate" -> MSG_FILE_TRUNCATE
      [] op = "file_stat" -> MSG_FILE_STAT
      [] op = "file_name" -> MSG_FILE_NAME
      [] OTHER -> MSG_FS_OPEN

\* Whether the method passes an encoded payload as the second argument (the
\* encoders of these methods always write at least one byte).
facade_has_payload(op) ==
    op \notin {"instance_close", "instance_wait", "instance_id", "instance_is_running"}

\* The Decoder reads the method makes after _check_error.
facade_result(op) ==
    CASE op \in {"instance_id", "file_name"} -> <<"string">>
      [] op = "instance_is_running" -> <<"decode_bool">>
      [] op = "file_read" -> <<"read_bytes">>
      [] op = "file_write" -> <<"uint32">>
      [] op = "file_seek" -> <<"int64">>
      [] op = "file_stat" -> file_info
      [] op = "fs_open" -> <<"uint64">>
      [] OTHER -> <<>>

\* A method that returns an empty result when a typed read fails.
facade_decode_partial(op, resp) ==
    LET err == Decoder_error(resp) IN
    IF err.kind = "raise" THEN err
    ELSE Return(Decoder_reads(facade_result(op), resp, 1).vals)

\* An operation that reads its result without _check_error(dec).
facade_decode_unchecked(op, resp) ==
    LET r == Decoder_reads(facade_result(op), resp, 1) IN
    IF r.ok THEN Return(r.vals) ELSE Foreign(r.exc)

\* dec = Decoder(resp); _check_error(dec); the typed reads; return.
\* dec.error() leaves the decoder after the status byte.
facade_decode(op, resp) ==
    LET err == Decoder_error(resp) IN
    IF err.kind = "raise" THEN err
    ELSE LET r == Decoder_reads(facade_result(op), resp, 1) IN
         IF r.ok THEN Return(r.vals) ELSE Foreign(r.exc)

\* Encoder.uint32, Encoder.encode_bool, Encoder.write_bytes
Encoder_uint32(v) == BE(v, 4)
Encoder_encode_bool(v) == IF v THEN <<1>> ELSE <<0>>
Encoder_write_bytes(b) == BE(Len(b), 4) \o b

\* struct.pack("!Q") and struct.pack("!q") of an integer given by its four
\* base-65536 digits: each digit is two bytes, a negative first digit in
\* two's complement.
Encoder_uint64(d) ==
    LET u(i) == IF d[i] < 0 THEN d[i] + 65536 ELSE d[i] IN
    BE(u(1), 2) \o BE(u(2), 2) \o BE(u(3), 2) \o BE(u(4), 2)
Encoder_int64(d) == Encoder_uint64(d)

\* Encoder.uint8, Encoder.uint16
Encoder_uint8(v) == BE(v, 1)
Encoder_uint16(v) == BE(v, 2)

\* Encoder.int32: struct.pack("!i"), a negative value in two's complement
Encoder_int32(v) ==
    IF v < 0
    THEN LET u == (v + 2147483647) + 1
             b == BE(u, 4)
         IN  <<128 + b[1], b[2], b[3], b[4]>>
    ELSE BE(v, 4)

RECURSIVE Encoder_strings(_)
Encoder_strings(ss) ==
    IF ss = <<>> THEN <<>> ELSE Encoder_str(Head(ss)) \o Encoder_strings(Tail(ss))

\* Encoder.string_slice with the strings written last to first
Encoder_string_slice_reversed(ss) ==
    Encoder_uint32(Len(ss)) \o Encoder_strings([i \in 1..Len(ss) |-> ss[Len(ss) + 1 - i]])

\* Encoder.string_slice: the count, then each string
Encoder_string_slice(ss) == Encoder_uint32(Len(ss)) \o Encoder_strings(ss)

\* Encoder.mount_config
Encoder_mount_config(tag, host_path, writable) ==
    Encoder_str(tag) \o Encoder_str(host_path) \o Encoder_encode_bool(writable)

RECURSIVE Encoder_mounts(_)
\* for tag, host_path, writable in mounts: self.mount_config(...)
Encoder_mounts(mounts) ==
    IF mounts = <<>> THEN <<>>
    ELSE Encoder_mount_config(Head(mounts)[1], Head(mounts)[2], Head(mounts)[3])
         \o Encoder_mounts(Tail(mounts))

\* Encoder.instance_options; the timeout is given in nanoseconds, as
\* int(timeout_seconds * 1e9) makes it.
Encoder_instance_options(memory_mb, cpus, timeout_nanos, user, enable_dmesg, mounts) ==
    Encoder_uint64(memory_mb) \o Encoder_int32(cpus) \o Encoder_uint64(timeout_nanos)
    \o Encoder_str(user) \o Encoder_encode_bool(enable_dmesg)
    \o Encoder_uint32(Len(mounts)) \o Encoder_mounts(mounts)

\* Encoder.snapshot_options
Encoder_snapshot_options(excludes, cache_dir) ==
    Encoder_string_slice(excludes) \o Encoder_str(cache_dir)

RECURSIVE Encoder_build_args(_)
\* for k, v in build_args.items(): self.string(k); self.string(v)
\* items is build_args.items(): the pairs of the dict in insertion order.
Encoder_build_args(items) ==
    IF items = <<>> THEN <<>>
    ELSE Encoder_str(Head(items)[1]) \o Encoder_str(Head(items)[2])
         \o Encoder_build_args(Tail(items))

\* Encoder.dockerfile_options
Encoder_dockerfile_options(dockerfile, context_dir, cache_dir, items) ==
    Encoder_write_bytes(dockerfile) \o Encoder_str(context_dir) \o Encoder_str(cache_dir)
    \o Encoder_uint32(Len(items)) \o Encoder_build_args(items)

\* One Encoder write, by the name of the Decoder method that reads it back.
Encoder_write(method, v) ==
    CASE method = "uint8" -> Encoder_uint8(v)
      [] method = "uint16" -> Encoder_uint16(v)
      [] method = "uint32" -> Encoder_uint32(v)
      [] method = "uint64" -> Encoder_uint64(v)
      [] method = "int32" -> Encoder_int32(v)
      [] method = "int64" -> Encoder_int64(v)
      [] method = "decode_bool" -> Encoder_encode_bool(v)
      [] method = "string" -> Encoder_str(v)
      [] method = "read_bytes" -> Encoder_write_bytes(v)
      [] OTHER -> Encoder_string_slice(v)

\* Whether the write raises: str.encode refuses a surrogate.
Encoder_raises(method, v) ==
    CASE method = "string" -> ~Utf8Encode(v).ok
      [] method = "string_slice" -> \E i \in 1..Len(v) : ~Utf8Encode(v[i]).ok
      [] OTHER -> FALSE

\* Encodings of a few values of the type a Decoder method reads.
SampleField(method) ==
    CASE method = "string" -> {Encoder_string(<<>>), Encoder_string(<<104, 105>>)}
      [] method = "decode_bool" -> {Encoder_encode_bool(TRUE), Encoder_encode_bool(FALSE)}
      [] method = "read_bytes" -> {Encoder_write_bytes(<<>>), Encoder_write_bytes(<<1, 0>>)}
      [] method = "uint32" -> {Encoder_uint32(3)}
      [] method = "uint64" -> {Encoder_uint64(<<0, 0, 0, 7>>)}
      [] OTHER -> {Encoder_int64(<<0, 0, 0, 9>>)}

RECURSIVE SampleFields(_)
SampleFields(methods) ==
    IF methods = <<>> THEN {<<>>}
    ELSE {a \o b : a \in SampleField(Head(methods)), b \in SampleFields(Tail(methods))}

\* Well-formed success payloads of an operation: the status byte 0 and the
\* fields of the typed result.
ResultPayloads(op) == {<<ERR_CODE_OK>> \o fs : fs \in SampleFields(facade_result(op))}

Prefixes(bs) == {SubSeq(bs, 1, k) : k \in 0..Len(bs)}

\* IPCBackend() before any operation, and between operations.
NoFacade ==
    [client |-> "none", spawns |-> 0, live |-> 0, pc |-> "idle", op |-> "", sent |-> <<>>,
     resp |-> NoOutcome, res |-> NoOutcome]

\* ------------------------------------------------------------------ state
VARIABLES
    closed,         \* IPCClient._closed
    lock,           \* IPCClient._lock: the thread that holds it, or NoThread
    sockOpen,       \* IPCClient._sock is not closed by the client
    process,        \* IPCClient._process: "none" (None), "running" or "exited"
    socketFile,     \* the file at IPCClient._socket_path exists
    isWindows,      \* platform.system() == "Windows"
    c2s,            \* bytes written by the client, not yet read by the helper
    s2c,            \* bytes written by the helper, not yet read by the client
    peerOpen,       \* the helper's end of the connection is open
    pc,             \* each thread's position in call() or close()
    loc,            \* each thread's local variables
    result,         \* the outcome of each thread's last operation
    gh,             \* per thread, what its current operation has done so far
    frameLens,      \* the lengths of the response frames not yet wholly read
    rxInFrame,      \* bytes the client has read of the first of them
    crossed,        \* some recv returned bytes of two frames at once
    sockUser,       \* the thread that last wrote to or read from the socket
    closeCompleted, \* some close() has ended
    nSockClose,     \* executions of self._sock.close()
    nProcWait,      \* executions of the first self._process.wait(timeout=2)
    nRemove,        \* calls of _remove_socket
    opsLeft,        \* operations still to be invoked
    env,            \* what helper discovery sees: platform, environment, files
    found,          \* what _find_helper returned, once it has run
    counter,        \* _socket_counter
    counterLock,    \* _socket_counter_lock: the thread that holds it, or NoThread
    sp,             \* each thread's position and locals in spawn_helper
    procs,          \* the helper processes started by subprocess.Popen
    sockFiles,      \* the socket paths at which a file exists
    clients,        \* the IPCClient objects spawn_helper returned
    issued,         \* the counts and paths _next_socket_path gave out, in order
    spawnsLeft,     \* spawn_helper invocations still to be made
    fac,            \* one IPCBackend: its _client and the operation in progress
    facLeft,        \* operations still to be invoked on the IPCBackend
    cod,            \* the codec at work: a Decoder and its reads, or a value on its round trip
    api             \* objects of the client API: an OCIClient, a CancelToken

clientVars == <<closed, lock, sockOpen, process, socketFile, isWindows>>
wireVars == <<c2s, s2c, peerOpen, frameLens, rxInFrame, crossed>>
threadVars == <<pc, loc, result, gh>>
countVars == <<sockUser, closeCompleted, nSockClose, nProcWait, nRemove, opsLeft>>
findVars == <<env, found>>
\* The state outside the IPCClient under study.
spawnVars == <<counter, counterLock, sp, procs, sockFiles, clients, issued, spawnsLeft>>
facadeVars == <<fac, facLeft>>
codecVars == <<cod>>
apiVars == <<api>>
envVars == <<findVars, spawnVars, facadeVars, codecVars, apiVars>>
ipcVars == <<clientVars, wireVars, threadVars, countVars>>
\* What helper discovery, spawn_helper and the IPCBackend each leave alone.
nonFindVars == <<ipcVars, spawnVars, facadeVars, codecVars, apiVars>>
nonSpawnVars == <<ipcVars, findVars, facadeVars, codecVars, apiVars>>
nonFacadeVars == <<ipcVars, findVars, spawnVars, codecVars, apiVars>>
nonCodecVars == <<ipcVars, findVars, spawnVars, facadeVars, apiVars>>
nonApiVars == <<ipcVars, findVars, spawnVars, facadeVars, codecVars>>
vars == <<clientVars, wireVars, threadVars, countVars, envVars>>

\* The payload a thread sends carries the thread's own marker.
Marker(t) == 64 + t
\* The requests a thread may send: one without payload, one with.
Requests(t) ==
    {[msg_type |-> MSG_INSTANCE_NEW, payload |-> <<>>],
     [msg_type |-> MSG_FS_READ_FILE, payload |-> <<Marker(t)>>]}

NoLocals ==
    [msg_type |-> 0, payload |-> <<>>, data |-> <<>>, resp_header |-> <<>>, resp_type |-> 0,
     resp_len |-> 0, resp_payload |-> <<>>, tries |-> 0]

NoGhost ==
    [op |-> "none", late |-> FALSE, io |-> FALSE, sent |-> <<>>, taken |-> <<>>, hdr |-> <<>>,
     eof |-> FALSE, frag |-> FALSE,
     complete |-> FALSE, tore |-> FALSE, cSock |-> 0, cWait |-> 0, cKill |-> 0,
     cRm |-> 0]

\* IPCClient.__init__, after spawn_helper (a process) or connect_to (none):
\* the socket is connected, so the socket file exists.
ClientInit ==
    /\ closed = FALSE
    /\ lock = NoThread
    /\ sockOpen = TRUE
    /\ process \in {"none", "running"}
    /\ socketFile = TRUE
    /\ isWindows \in BOOLEAN
    /\ c2s = <<>> /\ s2c = <<>> /\ peerOpen = TRUE
    /\ pc = [t \in Threads |-> "idle"]
    /\ loc = [t \in Threads |-> NoLocals]
    /\ result = [t \in Threads |-> NoOutcome]
    /\ gh = [t \in Threads |-> NoGhost]
    /\ frameLens = <<>> /\ rxInFrame = 0 /\ crossed = FALSE
    /\ sockUser = NoThread
    /\ closeCompleted = FALSE
    /\ nSockClose = 0 /\ nProcWait = 0 /\ nRemove = 0

\* The locals of spawn_helper and of the _next_socket_path it calls, and what
\* the invocation has seen: the errors of its connect attempts, its os.remove
\* attempts.
NoSpawn ==
    [pc |-> "idle", helper_path |-> None, tmp |-> 0, count |-> 0, socket_path |-> NoPath,
     process |-> 0, elapsed |-> 0, last_err |-> None, errs |-> <<>>, sockBound |-> FALSE,
     tries |-> 0, removes |-> 0, res |-> NoSpawnOutcome]

\* The module as imported: counter 0, lock free, no helper spawned.
SpawnStart ==
    /\ counter = 0
    /\ counterLock = NoThread
    /\ sp = [t \in Threads |-> NoSpawn]
    /\ procs = <<>>
    /\ sockFiles = {}
    /\ clients = <<>>
    /\ issued = <<>>

\* No IPCBackend in use.
FacadeParked == fac = NoFacade /\ facLeft = 0

\* No Decoder or Encoder at work, no object of the client API.
NoCodec == [mode |-> "none"]
NoApi == [mode |-> "none"]
CodecParked == cod = NoCodec
ApiParked == api = NoApi

\* One client in use by the threads; nothing else goes on.
Init ==
    /\ ClientInit
    /\ opsLeft = MaxOps
    /\ env = NoEnv /\ found = NotFoundYet
    /\ SpawnStart /\ spawnsLeft = 0
    /\ FacadeParked /\ CodecParked /\ ApiParked

\* ---------------------------------------------------------- IPCClient.call
\* A call() that does not take the lock: a variant the properties must reject.
LockFree_absent(holder) == TRUE

\* Lock.acquire of "with self._lock": blocks while another thread holds it
LockFree(holder) == holder = NoThread

\* A call() without the closed check: a variant the properties must reject.
CallSeesClosed_absent(flag) == FALSE

\* A call() that fails fast whatever the flag.
CallSeesClosed_always(flag) == flag \/ ~flag

\* "if self._closed" of call
CallSeesClosed(flag) == flag

\* recv(n) on every iteration: a variant the properties must reject.
recv_size_whole(n, have) == n

\* the argument of self._sock.recv in _recv_exact
recv_size(n, have) == n - have

\* A loop that goes on after an empty chunk: a variant the properties must
\* reject.
recv_exact_step_no_eof(data, n, chunk) ==
    [st |-> IF Len(data \o chunk) < n THEN "loop" ELSE "ret", data |-> data \o chunk]

\* One iteration of the loop of _recv_exact after recv returned chunk:
\* "raise" (empty chunk), "loop" (still short) or "ret" (n bytes or more).
recv_exact_step(data, n, chunk) ==
    IF chunk = <<>> THEN [st |-> "raise", data |-> data]
    ELSE [st |-> IF Len(data \o chunk) < n THEN "loop" ELSE "ret",
          data |-> data \o chunk]

\* A call() that returns every payload: a variant the properties must reject.
call_dispatch_unchecked(resp_type, resp_payload) == Return(resp_payload)

\* A call() that takes an error response with code 0 for a success.
call_dispatch_code0_returns(resp_type, resp_payload) ==
    IF resp_type = MSG_ERROR
    THEN LET err == Decoder_error(resp_payload) IN
         IF err.kind = "raise" THEN err ELSE Return(resp_payload)
    ELSE Return(resp_payload)

\* The end of call() once the response is read: raise for MSG_ERROR,
\* return the payload otherwise.
call_dispatch(resp_type, resp_payload) ==
    IF resp_type = MSG_ERROR
    THEN LET err == Decoder_error(resp_payload) IN
         IF err.kind = "raise" THEN err
         ELSE CCError("Unknown error from helper", CODE_UNKNOWN_ERROR)
    ELSE Return(resp_payload)

\* A thread invokes call(msg_type, payload).
StartCall(t, mt, pl) ==
    /\ pc[t] = "idle" /\ opsLeft > 0
    /\ opsLeft' = opsLeft - 1
    /\ pc' = [pc EXCEPT ![t] = "call_lock"]
    /\ loc' = [loc EXCEPT ![t] = [NoLocals EXCEPT !.msg_type = mt, !.payload = pl]]
    /\ result' = [result EXCEPT ![t] = NoOutcome]
    /\ gh' = [gh EXCEPT ![t] = [NoGhost EXCEPT !.op = "call", !.late = closeCompleted]]
    /\ UNCHANGED <<clientVars, wireVars, sockUser, closeCompleted, nSockClose,
                   nProcWait, nRemove>>
    /\ UNCHANGED envVars

\* with self._lock: (entry)
CallLock(t) ==
    /\ pc[t] = "call_lock"
    /\ LockFree(lock)
    /\ lock' = t
    /\ pc' = [pc EXCEPT ![t] = "call_check"]
    /\ UNCHANGED <<closed, sockOpen, process, socketFile, isWindows, wireVars,
                   loc, result, gh, countVars>>
    /\ UNCHANGED envVars

\* call() ending without releasing the lock
EndCall_keeps_lock(t, o) ==
    /\ pc' = [pc EXCEPT ![t] = "idle"]
    /\ result' = [result EXCEPT ![t] = o]
    /\ UNCHANGED lock

\* call() ends with outcome o: the with statement releases the lock.
EndCall(t, o) ==
    /\ pc' = [pc EXCEPT ![t] = "idle"]
    /\ result' = [result EXCEPT ![t] = o]
    /\ lock' = NoThread

\* if self._closed: raise CCError("Client closed", code=4)
CallCheck(t) ==
    /\ pc[t] = "call_check"
    /\ IF CallSeesClosed(closed)
       THEN EndCall(t, CCError("Client closed", CODE_CLIENT_CLOSED))
       ELSE /\ pc' = [pc EXCEPT ![t] = "send_header"]
            /\ UNCHANGED <<result, lock>>
    /\ UNCHANGED <<closed, sockOpen, process, socketFile, isWindows, wireVars,
                   loc, gh, countVars>>
    /\ UNCHANGED envVars

\* self._sock.sendall(header): OSError on a closed socket or a closed peer
SendHeader(t) ==
    /\ pc[t] = "send_header"
    /\ gh' = [gh EXCEPT ![t].io = TRUE,
                        ![t].sent = IF ~sockOpen \/ ~peerOpen THEN @
                                    ELSE @ \o encode_header(loc[t].msg_type, Len(loc[t].payload))]
    /\ IF ~sockOpen \/ ~peerOpen
       THEN /\ EndCall(t, Foreign("OSError"))
            /\ UNCHANGED <<c2s, sockUser>>
       ELSE /\ c2s' = c2s \o encode_header(loc[t].msg_type, Len(loc[t].payload))
            /\ sockUser' = t
            /\ pc' = [pc EXCEPT ![t] =
                        IF loc[t].payload # <<>> THEN "send_payload" ELSE "recv_header"]
            /\ UNCHANGED <<result, lock>>
    /\ UNCHANGED <<closed, sockOpen, process, socketFile, isWindows, s2c,
                   peerOpen, frameLens, rxInFrame, crossed, loc, closeCompleted, nSockClose,
                   nProcWait, nRemove, opsLeft>>
    /\ UNCHANGED envVars

\* if payload: self._sock.sendall(payload)
SendPayload(t) ==
    /\ pc[t] = "send_payload"
    /\ gh' = [gh EXCEPT ![t].io = TRUE,
                        ![t].sent = IF ~sockOpen \/ ~peerOpen THEN @ ELSE @ \o loc[t].payload]
    /\ IF ~sockOpen \/ ~peerOpen
       THEN /\ EndCall(t, Foreign("OSError"))
            /\ UNCHANGED <<c2s, sockUser>>
       ELSE /\ c2s' = c2s \o loc[t].payload
            /\ sockUser' = t
            /\ pc' = [pc EXCEPT ![t] = "recv_header"]
            /\ UNCHANGED <<result, lock>>
    /\ UNCHANGED <<closed, sockOpen, process, socketFile, isWindows, s2c,
                   peerOpen, frameLens, rxInFrame, crossed, loc, closeCompleted, nSockClose,
                   nProcWait, nRemove, opsLeft>>
    /\ UNCHANGED envVars

Min(a, b) == IF a < b THEN a ELSE b

\* What follows a completed _recv_exact in call(): after the header,
\* decode_header and the payload read (skipped when resp_len is 0); after
\* the payload, the error check.
AfterRecv(t, data, chunk, short) ==
    IF pc[t] = "recv_header"
    THEN LET h == decode_header(data) IN
         /\ loc' = [loc EXCEPT ![t].data = <<>>, ![t].resp_header = data,
                               ![t].resp_type = h.msg_type,
                               ![t].resp_len = h.payload_len]
         /\ pc' = [pc EXCEPT ![t] = IF h.payload_len > 0 THEN "recv_payload" ELSE "dispatch"]
         /\ gh' = [gh EXCEPT ![t].io = TRUE, ![t].taken = <<>>,
                             ![t].hdr = gh[t].taken \o chunk,
                             ![t].eof = (@ \/ chunk = <<>>), ![t].frag = (@ \/ short),
                             ![t].complete = (h.payload_len = 0)]
    ELSE /\ loc' = [loc EXCEPT ![t].data = <<>>, ![t].resp_payload = data]
         /\ pc' = [pc EXCEPT ![t] = "dispatch"]
         /\ gh' = [gh EXCEPT ![t].io = TRUE, ![t].taken = @ \o chunk,
                             ![t].eof = (@ \/ chunk = <<>>), ![t].frag = (@ \/ short),
                             ![t].complete = TRUE]

\* One iteration of _recv_exact whose recv returned chunk (short: fewer
\* bytes than were still missing).
RecvChunk(t, n, chunk, short) ==
    LET r == recv_exact_step(loc[t].data, n, chunk) IN
    CASE r.st = "raise" ->
            /\ EndCall(t, CCError("Connection closed by helper", CODE_CONNECTION_CLOSED))
            /\ gh' = [gh EXCEPT ![t].io = TRUE, ![t].taken = @ \o chunk,
                                ![t].eof = (@ \/ chunk = <<>>), ![t].frag = (@ \/ short)]
            /\ UNCHANGED loc
      [] r.st = "loop" ->
            /\ loc' = [loc EXCEPT ![t].data = r.data]
            /\ gh' = [gh EXCEPT ![t].io = TRUE, ![t].taken = @ \o chunk,
                                ![t].eof = (@ \/ chunk = <<>>), ![t].frag = (@ \/ short)]
            /\ UNCHANGED <<pc, result, lock>>
      [] OTHER ->
            /\ AfterRecv(t, r.data, chunk, short)
            /\ UNCHANGED <<result, lock>>

\* The client has taken k bytes off the stream: where that leaves it in the
\* helper's frames.
Consumed(k) ==
    LET left == frameLens[1] - rxInFrame IN
    IF k < left
    THEN /\ rxInFrame' = rxInFrame + k
         /\ UNCHANGED <<frameLens, crossed>>
    ELSE /\ frameLens' = Tail(frameLens)
         /\ rxInFrame' = k - left
         /\ crossed' = (crossed \/ k > left)

\* chunk = self._sock.recv(n - len(data)): up to that many of the bytes that
\* have arrived, at least one; blocks while none has arrived and the helper's
\* end is open; empty once the helper's end is closed and nothing is left.
\* A recv entered after the client closed the socket raises OSError; one
\* entered before still completes.
Recv(t) ==
    /\ pc[t] \in {"recv_header", "recv_payload"}
    /\ LET n == IF pc[t] = "recv_header" THEN HEADER_SIZE ELSE loc[t].resp_len IN
       \/ /\ ~sockOpen
          /\ EndCall(t, Foreign("OSError"))
          /\ gh' = [gh EXCEPT ![t].io = TRUE]
          /\ UNCHANGED <<loc, s2c, sockUser, frameLens, rxInFrame, crossed>>
       \/ /\ s2c # <<>>
          /\ \E k \in 1..Min(recv_size(n, Len(loc[t].data)), Len(s2c)) :
                /\ s2c' = SubSeq(s2c, k + 1, Len(s2c))
                /\ sockUser' = t
                /\ Consumed(k)
                /\ RecvChunk(t, n, SubSeq(s2c, 1, k), k < n - Len(gh[t].taken))
       \/ /\ s2c = <<>> /\ ~peerOpen
          /\ UNCHANGED <<s2c, sockUser, frameLens, rxInFrame, crossed>>
          /\ RecvChunk(t, n, <<>>, FALSE)
    /\ UNCHANGED <<closed, sockOpen, process, socketFile, isWindows, c2s,
                   peerOpen, closeCompleted, nSockClose, nProcWait, nRemove, opsLeft>>
    /\ UNCHANGED envVars

\* if resp_type == MSG_ERROR: ... raise; return resp_payload
Dispatch(t) ==
    /\ pc[t] = "dispatch"
    /\ EndCall(t, call_dispatch(loc[t].resp_type, loc[t].resp_payload))
    /\ UNCHANGED <<closed, sockOpen, process, socketFile, isWindows, wireVars,
                   loc, gh, countVars>>
    /\ UNCHANGED envVars

\* ------------------------------------------------------ the helper process
\* How the helper answers a request: it echoes the payload under the
\* response code or under the request's own code, or it answers with an
\* error frame: a well-formed one that names the request's payload, one
\* whose code byte is 0, or one with no payload at all.
PeerModes == {"echo", "echo_op", "error", "error_code0", "error_empty"}
\* The error code of the helper's well-formed error responses.
PeerErrorCodes == {2}

ErrorPayload(code, message, op, path) ==
    <<code>> \o Encoder_string(message) \o Encoder_string(op) \o Encoder_string(path)

PeerResponse(mode, code, msg_type, payload) ==
    CASE mode = "echo" -> encode_header(MSG_RESPONSE, Len(payload)) \o payload
      [] mode = "echo_op" -> encode_header(msg_type, Len(payload)) \o payload
      [] mode = "error" ->
            LET e == ErrorPayload(code, payload, <<>>, payload) IN
            encode_header(MSG_ERROR, Len(e)) \o e
      [] mode = "error_code0" -> encode_header(MSG_ERROR, 1) \o <<ERR_CODE_OK>>
      [] OTHER -> encode_header(MSG_ERROR, 0)

\* The helper reads the next whole request frame, in arrival order, and
\* writes its response. The client cannot tell when the helper wrote which
\* byte, only what each recv returns, so the response is written at once
\* and Recv chooses the fragments.
PeerRespond(mode, code) ==
    /\ peerOpen
    /\ Len(c2s) >= HEADER_SIZE
    /\ LET h == decode_header(SubSeq(c2s, 1, HEADER_SIZE))
           frame == PeerResponse(mode, code, h.msg_type,
                                 SubSeq(c2s, HEADER_SIZE + 1, HEADER_SIZE + h.payload_len))
       IN  /\ Len(c2s) >= HEADER_SIZE + h.payload_len
           /\ c2s' = SubSeq(c2s, HEADER_SIZE + h.payload_len + 1, Len(c2s))
           /\ s2c' = s2c \o frame
           /\ frameLens' = frameLens \o <<Len(frame)>>
    /\ UNCHANGED <<clientVars, peerOpen, rxInFrame, crossed, threadVars, countVars>>
    /\ UNCHANGED envVars

\* The helper reads a request and closes its end after writing only the
\* first k bytes of the response, k less than the frame's length.
PeerRespondCut(mode, code) ==
    /\ peerOpen
    /\ Len(c2s) >= HEADER_SIZE
    /\ LET h == decode_header(SubSeq(c2s, 1, HEADER_SIZE))
           frame == PeerResponse(mode, code, h.msg_type,
                                 SubSeq(c2s, HEADER_SIZE + 1, HEADER_SIZE + h.payload_len))
       IN  /\ Len(c2s) >= HEADER_SIZE + h.payload_len
           /\ c2s' = SubSeq(c2s, HEADER_SIZE + h.payload_len + 1, Len(c2s))
           /\ \E k \in 0..(Len(frame) - 1) :
                 /\ s2c' = s2c \o SubSeq(frame, 1, k)
                 /\ frameLens' = IF k = 0 THEN frameLens ELSE frameLens \o <<Len(frame)>>
    /\ peerOpen' = FALSE
    /\ UNCHANGED <<clientVars, rxInFrame, crossed, threadVars, countVars>>
    /\ UNCHANGED envVars

\* The helper closes its end between two requests.
PeerClose ==
    /\ peerOpen
    /\ peerOpen' = FALSE
    /\ UNCHANGED <<clientVars, c2s, s2c, frameLens, rxInFrame, crossed, threadVars,
                   countVars>>
    /\ UNCHANGED envVars

\* The spawned helper exits (on its own, or after its connection went
\* away); its end of the connection closes with it.
ProcessExit ==
    /\ process = "running"
    /\ process' = "exited"
    /\ peerOpen' = FALSE
    /\ UNCHANGED <<closed, lock, sockOpen, socketFile, isWindows, c2s, s2c, frameLens,
                   rxInFrame, crossed, threadVars, countVars>>
    /\ UNCHANGED envVars

\* --------------------------------------------------------- IPCClient.close
\* A close() without its guard: a variant the properties must reject.
CloseSeesClosed_absent(flag) == FALSE

\* "if self._closed: return" of close
CloseSeesClosed(flag) == flag

\* A close() that leaves the helper alone: a variant the properties must
\* reject.
after_sock_close_no_wait(hasProcess) == "close_remove"

\* A close() that waits for a process whether it has one or not.
after_sock_close_always_wait(hasProcess) == "close_wait"

\* After self._sock.close(): "if self._process is not None" shuts the helper
\* down, and the socket file is removed after that.
after_sock_close(hasProcess) == IF hasProcess THEN "close_wait" ELSE "close_remove"

\* No retry on any platform: a variant the properties must reject.
remove_attempts_once(windows) == 1

\* The os.remove attempts of _remove_socket: range(5) on Windows, one elsewhere
remove_attempts(windows) == IF windows THEN REMOVE_ATTEMPTS_WINDOWS ELSE 1

\* A thread invokes close() (explicitly, by __exit__ or by __del__).
StartClose(t) ==
    /\ pc[t] = "idle" /\ opsLeft > 0
    /\ opsLeft' = opsLeft - 1
    /\ pc' = [pc EXCEPT ![t] = "close_check"]
    /\ loc' = [loc EXCEPT ![t] = NoLocals]
    /\ result' = [result EXCEPT ![t] = NoOutcome]
    /\ gh' = [gh EXCEPT ![t] = [NoGhost EXCEPT !.op = "close", !.late = closeCompleted]]
    /\ UNCHANGED <<clientVars, wireVars, sockUser, closeCompleted, nSockClose,
                   nProcWait, nRemove>>
    /\ UNCHANGED envVars

\* close() ends with outcome o.
EndClose(t, o) ==
    /\ pc' = [pc EXCEPT ![t] = "idle"]
    /\ result' = [result EXCEPT ![t] = o]
    /\ closeCompleted' = TRUE

\* if self._closed: return
CloseCheck(t) ==
    /\ pc[t] = "close_check"
    /\ IF CloseSeesClosed(closed)
       THEN /\ EndClose(t, Return(<<>>))
            /\ UNCHANGED gh
       ELSE /\ pc' = [pc EXCEPT ![t] = "close_set"]
            /\ gh' = [gh EXCEPT ![t].tore = TRUE]
            /\ UNCHANGED <<result, closeCompleted>>
    /\ UNCHANGED <<clientVars, wireVars, loc, sockUser, nSockClose, nProcWait,
                   nRemove, opsLeft>>
    /\ UNCHANGED envVars

\* self._closed = True
CloseSet(t) ==
    /\ pc[t] = "close_set"
    /\ closed' = TRUE
    /\ pc' = [pc EXCEPT ![t] = "close_sock"]
    /\ UNCHANGED <<lock, sockOpen, process, socketFile, isWindows, wireVars, loc,
                   result, gh, countVars>>
    /\ UNCHANGED envVars

\* self._sock.close(), OSError ignored
CloseSock(t) ==
    /\ pc[t] = "close_sock"
    /\ sockOpen' = FALSE
    /\ nSockClose' = nSockClose + 1
    /\ gh' = [gh EXCEPT ![t].cSock = @ + 1]
    /\ pc' = [pc EXCEPT ![t] = after_sock_close(process # "none")]
    /\ UNCHANGED <<closed, lock, process, socketFile, isWindows, wireVars, loc,
                   result, sockUser, closeCompleted, nProcWait, nRemove, opsLeft>>
    /\ UNCHANGED envVars

\* self._process.wait(timeout=2): returns once the helper has exited, raises
\* TimeoutExpired if it is still running when the two seconds are over.
CloseWait(t) ==
    /\ pc[t] = "close_wait"
    /\ nProcWait' = nProcWait + 1
    /\ gh' = [gh EXCEPT ![t].cWait = @ + 1]
    /\ pc' = [pc EXCEPT ![t] = IF process = "exited" THEN "close_remove" ELSE "close_kill"]
    /\ UNCHANGED <<clientVars, wireVars, loc, result, sockUser, closeCompleted,
                   nSockClose, nRemove, opsLeft>>
    /\ UNCHANGED envVars

\* self._process.kill(); self._process.wait(timeout=5): the helper is killed
\* and reaped, or (killed = FALSE) it has not died when the five seconds are
\* over and TimeoutExpired leaves close().
CloseKill(t, killed) ==
    /\ pc[t] = "close_kill"
    /\ gh' = [gh EXCEPT ![t].cKill = @ + 1]
    /\ IF process = "exited" \/ killed
       THEN /\ process' = "exited"
            /\ peerOpen' = FALSE
            /\ pc' = [pc EXCEPT ![t] = "close_remove"]
            /\ UNCHANGED <<result, closeCompleted>>
       ELSE /\ EndClose(t, Foreign("TimeoutExpired"))
            /\ UNCHANGED <<process, peerOpen>>
    /\ UNCHANGED <<closed, lock, sockOpen, socketFile, isWindows, c2s, s2c, frameLens,
                   rxInFrame, crossed, loc, sockUser, nSockClose, nProcWait, nRemove,
                   opsLeft>>
    /\ UNCHANGED envVars

\* if self._socket_path: _remove_socket(self._socket_path), one os.remove
\* attempt per step: it removes the file, or raises OSError (the file is
\* gone already, or it cannot be removed), which is passed over, and on
\* Windows retried.
CloseRemove(t, removed) ==
    /\ pc[t] = "close_remove"
    /\ removed => socketFile
    /\ nRemove' = IF loc[t].tries = 0 THEN nRemove + 1 ELSE nRemove
    /\ gh' = [gh EXCEPT ![t].cRm = @ + 1]
    /\ socketFile' = (socketFile /\ ~removed)
    /\ IF removed \/ loc[t].tries + 1 >= remove_attempts(isWindows)
       THEN /\ EndClose(t, Return(<<>>))
            /\ loc' = [loc EXCEPT ![t].tries = 0]
       ELSE /\ loc' = [loc EXCEPT ![t].tries = @ + 1]
            /\ UNCHANGED <<pc, result, closeCompleted>>
    /\ UNCHANGED <<closed, lock, sockOpen, process, isWindows, wireVars, sockUser,
                   nSockClose, nProcWait, opsLeft>>
    /\ UNCHANGED envVars

\* ------------------------------------------------------- helper discovery
\* The client of the first specification, left alone.
ClientParked ==
    /\ ClientInit
    /\ process = "none"
    /\ opsLeft = 0

FindInit ==
    /\ env \in FindEnvs
    /\ found = NotFoundYet
    /\ SpawnStart /\ spawnsLeft = 0
    /\ FacadeParked /\ CodecParked /\ ApiParked
    /\ ClientParked
    /\ isWindows = (env.system = "Windows")

\* helper_path, searched = _find_helper()
RunFindHelper ==
    /\ ~found.ran
    /\ found' = [ran |-> TRUE, path |-> find_helper(env).path,
                 searched |-> find_helper(env).searched]
    /\ UNCHANGED <<nonFindVars, env>>

FindNext == RunFindHelper

FindSpec == FindInit /\ [][FindNext]_vars

\* ------------------------------------------------------------ spawn_helper
\* The environments of spawn_helper: the override names the helper, which is
\* there or not; nothing lies anywhere else.
SpawnEnvs ==
    {e \in FindEnvs :
        /\ e.system \in {"Linux", "Windows"}
        /\ e.env_path = Some(OverridePath)
        /\ e.files \subseteq {OverridePath}
        /\ e.localappdata = <<>>
        /\ e.which = None}

SpawnInit ==
    /\ env \in SpawnEnvs
    /\ found = NotFoundYet
    /\ SpawnStart /\ spawnsLeft = MaxSpawns
    /\ FacadeParked /\ CodecParked /\ ApiParked
    /\ ClientParked
    /\ isWindows = (env.system = "Windows")

\* A thread invokes spawn_helper().
StartSpawn(t) ==
    /\ sp[t].pc = "idle" /\ spawnsLeft > 0
    /\ spawnsLeft' = spawnsLeft - 1
    /\ sp' = [sp EXCEPT ![t] = [NoSpawn EXCEPT !.pc = "find"]]
    /\ UNCHANGED <<nonSpawnVars, counter,
                   counterLock, procs, sockFiles, clients, issued>>

\* spawn_helper ends with outcome o.
EndSpawn(t, o) == [sp[t] EXCEPT !.pc = "idle", !.res = o]

\* helper_path, searched = _find_helper()
\* if helper_path is None: raise HelperNotFoundError(searched)
SpawnFind(t) ==
    /\ sp[t].pc = "find"
    /\ LET r == find_helper(env) IN
       sp' = [sp EXCEPT ![t] =
                IF r.path = None THEN EndSpawn(t, HelperNotFoundError(r.searched))
                ELSE [sp[t] EXCEPT !.pc = "path_lock", !.helper_path = r.path]]
    /\ UNCHANGED <<nonSpawnVars, counter,
                   counterLock, procs, sockFiles, clients, issued, spawnsLeft>>

\* _next_socket_path: with _socket_counter_lock (entry)
PathLock(t) ==
    /\ sp[t].pc = "path_lock"
    /\ CounterLockFree(counterLock)
    /\ counterLock' = t
    /\ sp' = [sp EXCEPT ![t].pc = "path_read"]
    /\ UNCHANGED <<nonSpawnVars, counter,
                   procs, sockFiles, clients, issued, spawnsLeft>>

\* _socket_counter += 1: the load
PathRead(t) ==
    /\ sp[t].pc = "path_read"
    /\ sp' = [sp EXCEPT ![t].pc = "path_write", ![t].tmp = counter]
    /\ UNCHANGED <<nonSpawnVars, counter,
                   counterLock, procs, sockFiles, clients, issued, spawnsLeft>>

\* _socket_counter += 1: the store
PathWrite(t) ==
    /\ sp[t].pc = "path_write"
    /\ counter' = sp[t].tmp + 1
    /\ sp' = [sp EXCEPT ![t].pc = "path_count"]
    /\ UNCHANGED <<nonSpawnVars,
                   counterLock, procs, sockFiles, clients, issued, spawnsLeft>>

\* count = _socket_counter; the lock is released; the path is built from
\* the count (and, off Windows, the time ns).
PathCount(t, ns) ==
    /\ sp[t].pc = "path_count"
    /\ counterLock' = NoThread
    /\ LET path == next_socket_path(isWindows, counter, ns) IN
       /\ sp' = [sp EXCEPT ![t].pc = "popen", ![t].count = counter,
                           ![t].socket_path = path]
       /\ issued' = Append(issued, [count |-> counter, path |-> path])
    /\ UNCHANGED <<nonSpawnVars, counter,
                   procs, sockFiles, clients, spawnsLeft>>

\* process = subprocess.Popen([helper_path, "-socket", socket_path]): the
\* helper runs, or OSError (the file cannot be executed); then deadline and
\* last_err are set.
Popen(t, ok) ==
    /\ sp[t].pc = "popen"
    /\ IF ok
       THEN /\ procs' = Append(procs, [st |-> "running", path |-> sp[t].socket_path,
                                        reaped |-> FALSE])
            /\ sp' = [sp EXCEPT ![t].pc = "loop", ![t].process = Len(procs) + 1,
                                ![t].elapsed = 0, ![t].last_err = None]
       ELSE /\ sp' = [sp EXCEPT ![t] = EndSpawn(t, SpawnForeign("OSError"))]
            /\ UNCHANGED procs
    /\ UNCHANGED <<nonSpawnVars, counter,
                   counterLock, sockFiles, clients, issued, spawnsLeft>>

\* while time.monotonic() < deadline: if os.path.exists(socket_path):
LoopCheck(t) ==
    /\ sp[t].pc = "loop"
    /\ sp' = [sp EXCEPT ![t].pc =
                IF ~before_deadline(sp[t].elapsed) THEN after_loop
                ELSE IF sp[t].socket_path \in sockFiles THEN "connect"
                ELSE "sleep"]
    /\ UNCHANGED <<nonSpawnVars, counter,
                   counterLock, procs, sockFiles, clients, issued, spawnsLeft>>

\* try: sock = socket.socket(AF_UNIX, SOCK_STREAM); sock.connect(socket_path);
\*      return IPCClient(sock, socket_path, process)
\* except OSError as e: last_err = e; sock.close()
\* socket() itself may raise OSError (no descriptor left); sock is then what
\* an earlier attempt bound it to, and unbound at the first attempt, where
\* sock.close() raises UnboundLocalError. connect succeeds when the helper
\* listens at the path.
Connect(t, socketFails) ==
    /\ sp[t].pc = "connect"
    /\ IF socketFails
       THEN /\ sp' = [sp EXCEPT ![t] =
                        IF sp[t].sockBound
                        THEN [sp[t] EXCEPT !.pc = "sleep", !.last_err = Some("OSError"),
                                           !.errs = Append(@, "OSError")]
                        ELSE EndSpawn(t, SpawnForeign("UnboundLocalError"))]
            /\ UNCHANGED clients
       ELSE IF procs[sp[t].process].st = "listening" /\ sp[t].socket_path \in sockFiles
       THEN /\ clients' = Append(clients, [socket_path |-> sp[t].socket_path,
                                            process |-> sp[t].process,
                                            connected |-> TRUE])
            /\ sp' = [sp EXCEPT ![t] =
                        EndSpawn(t, SpawnReturn(Len(clients) + 1))]
       ELSE /\ sp' = [sp EXCEPT ![t].pc = "sleep", ![t].sockBound = TRUE,
                                ![t].last_err = Some("ConnectionRefusedError"),
                                ![t].errs = Append(@, "ConnectionRefusedError")]
            /\ UNCHANGED clients
    /\ UNCHANGED <<nonSpawnVars, counter,
                   counterLock, procs, sockFiles, issued, spawnsLeft>>

\* time.sleep(0.01)
Sleep(t) ==
    /\ sp[t].pc = "sleep"
    /\ sp' = [sp EXCEPT ![t].pc = "loop", ![t].elapsed = after_sleep(@)]
    /\ UNCHANGED <<nonSpawnVars, counter,
                   counterLock, procs, sockFiles, clients, issued, spawnsLeft>>

\* process.kill(); process.wait()
SpawnKill(t) ==
    /\ sp[t].pc = "kill"
    /\ procs' = [procs EXCEPT ![sp[t].process].st = "exited",
                              ![sp[t].process].reaped = TRUE]
    /\ sp' = [sp EXCEPT ![t].pc = "remove"]
    /\ UNCHANGED <<nonSpawnVars, counter,
                   counterLock, sockFiles, clients, issued, spawnsLeft>>

\* _remove_socket(socket_path), one os.remove attempt per step, then
\* raise CCError(f"Failed to connect to cc-helper: {last_err}", code=7)
SpawnRemove(t, removed) ==
    /\ sp[t].pc = "remove"
    /\ removed => sp[t].socket_path \in sockFiles
    /\ sockFiles' = IF removed THEN sockFiles \ {sp[t].socket_path} ELSE sockFiles
    /\ sp' = [sp EXCEPT ![t] =
                IF removed \/ sp[t].tries + 1 >= remove_attempts(isWindows)
                THEN [EndSpawn(t, ConnectFailed(sp[t].last_err))
                        EXCEPT !.tries = 0, !.removes = @ + 1]
                ELSE [sp[t] EXCEPT !.tries = @ + 1, !.removes = @ + 1]]
    /\ UNCHANGED <<nonSpawnVars, counter,
                   counterLock, procs, clients, issued, spawnsLeft>>

\* The helper binds its socket: the file appears.
ChildBind(i) ==
    /\ i \in 1..Len(procs)
    /\ procs[i].st = "running"
    /\ procs' = [procs EXCEPT ![i].st = "bound"]
    /\ sockFiles' = sockFiles \cup {procs[i].path}
    /\ UNCHANGED <<nonSpawnVars, counter,
                   counterLock, sp, clients, issued, spawnsLeft>>

\* The helper listens on its socket.
ChildListen(i) ==
    /\ i \in 1..Len(procs)
    /\ procs[i].st = "bound"
    /\ procs' = [procs EXCEPT ![i].st = "listening"]
    /\ UNCHANGED <<nonSpawnVars, counter,
                   counterLock, sp, sockFiles, clients, issued, spawnsLeft>>

\* The helper exits on its own before anyone is connected; what it bound
\* stays behind.
ChildExit(i) ==
    /\ i \in 1..Len(procs)
    /\ procs[i].st \in {"running", "bound", "listening"}
    /\ \A c \in 1..Len(clients) : clients[c].process # i
    /\ procs' = [procs EXCEPT ![i].st = "exited"]
    /\ UNCHANGED <<nonSpawnVars, counter,
                   counterLock, sp, sockFiles, clients, issued, spawnsLeft>>

\* The steps of thread t within spawn_helper.
SpawnStep(t) ==
    \/ SpawnFind(t)
    \/ PathLock(t)
    \/ PathRead(t)
    \/ PathWrite(t)
    \/ \E ns \in TimeStamps : PathCount(t, ns)
    \/ \E ok \in BOOLEAN : Popen(t, ok)
    \/ LoopCheck(t)
    \/ \E socketFails \in BOOLEAN : Connect(t, socketFails)
    \/ Sleep(t)
    \/ SpawnKill(t)
    \/ \E removed \in BOOLEAN : SpawnRemove(t, removed)

SpawnNext ==
    \/ \E t \in Threads : StartSpawn(t)
    \/ \E t \in Threads : SpawnStep(t)
    \/ \E i \in 1..MaxSpawns : ChildBind(i)
    \/ \E i \in 1..MaxSpawns : ChildListen(i)
    \/ \E i \in 1..MaxSpawns : ChildExit(i)

SpawnSpec == SpawnInit /\ [][SpawnNext]_vars

\* Every thread within spawn_helper goes on running.
FairSpawnSpec == SpawnSpec /\ \A t \in Threads : WF_vars(SpawnStep(t))

\* -------------------------------------------------------------- IPCBackend
\* What spawn_helper raises when it does not return a client.
SpawnFailures ==
    {Outcome("raise", "HelperNotFoundError", CODE_HELPER_NOT_FOUND, "cc-helper not found",
             <<>>, None, None, <<>>),
     CCError("Failed to connect to cc-helper", CODE_CONNECT_FAILED),
     Foreign("UnboundLocalError")}

\* Error statuses the helper puts at the head of a non-error response:
\* code, message, operation, path.
StatusErrors == {<<2, <<101>>, <<>>, <<>>>>, <<4, <<101>>, <<111>>, <<47>>>>}

\* The payloads of the helper's non-error responses: the well-formed result
\* payloads of the operations and the payloads whose status byte is an
\* error code, every one of them also cut short anywhere.
ResponsePayloads ==
    UNION {Prefixes(w) : w \in UNION {ResultPayloads(op) : op \in FacadeOps}}
    \cup UNION {Prefixes(ErrorPayload(e[1], e[2], e[3], e[4])) : e \in StatusErrors}

\* What IPCClient.call gives an operation: a response payload, a decoded
\* remote error, or a failure of the connection.
CallResults ==
    {Return(p) : p \in ResponsePayloads}
    \cup {error_from_code(2, <<101>>, None, None),
          CCError("Connection closed by helper", CODE_CONNECT_FAILED),
          Foreign("OSError")}

FacadeInit ==
    /\ fac = NoFacade
    /\ facLeft = MaxFacadeOps
    /\ CodecParked /\ ApiParked
    /\ env = NoEnv /\ found = NotFoundYet
    /\ SpawnStart /\ spawnsLeft = 0
    /\ ClientParked
    /\ isWindows = FALSE

\* An operation of the backend is invoked.
FacadeStart(op) ==
    /\ fac.pc = "idle" /\ facLeft > 0
    /\ facLeft' = facLeft - 1
    /\ fac' = [fac EXCEPT !.pc = "ensure", !.op = op, !.sent = <<>>,
                          !.resp = NoOutcome, !.res = NoOutcome]
    /\ UNCHANGED nonFacadeVars

\* _ensure_client with the test left out
ensure_spawns_always(client) == client \in {"none", "closed", "open"}

\* _ensure_client: self._client is None or self._client.is_closed
ensure_spawns(client) == client = "none" \/ client = "closed"

\* self.client: _ensure_client spawns a helper when there is no client or the
\* client is closed; an exception of spawn_helper ends the operation.
\* fac.live counts the clients this backend spawned that are not closed.
FacadeEnsure(o) ==
    /\ fac.pc = "ensure"
    /\ IF ensure_spawns(fac.client)
       THEN IF o.kind = "return"
            THEN fac' = [fac EXCEPT !.client = "open", !.spawns = @ + 1,
                                    !.live = @ + 1, !.pc = "call"]
            ELSE fac' = [fac EXCEPT !.pc = "idle", !.res = o]
       ELSE /\ o.kind = "return"
            /\ fac' = [fac EXCEPT !.pc = "call"]
    /\ UNCHANGED <<nonFacadeVars, facLeft>>

\* resp = self.client.call(MSG_..., ...): the one call of the method; an
\* exception of call ends the operation.
FacadeCall(r) ==
    /\ fac.pc = "call"
    /\ fac' = [fac EXCEPT
                 !.sent = Append(@, [msg_type |-> facade_msg(fac.op),
                                     has_payload |-> facade_has_payload(fac.op)]),
                 !.resp = r,
                 !.pc = IF r.kind = "raise" THEN "idle" ELSE "decode",
                 !.res = IF r.kind = "raise" THEN r ELSE @]
    /\ UNCHANGED <<nonFacadeVars, facLeft>>

\* dec = Decoder(resp); _check_error(dec); return the typed result
FacadeDecode ==
    /\ fac.pc = "decode"
    /\ fac' = [fac EXCEPT !.pc = "idle", !.res = facade_decode(fac.op, fac.resp.value)]
    /\ UNCHANGED <<nonFacadeVars, facLeft>>

\* IPCBackend.close(): closes the client it has, if any, and forgets it; with
\* no client it does nothing. IPCClient.close() of an open client may raise
\* (the wait after the kill timed out: ok is FALSE), and then the closed
\* client is kept.
BackendClose(ok) ==
    /\ fac.pc = "idle"
    /\ fac.client # "open" => ok
    /\ fac' = [fac EXCEPT
                 !.op = "close", !.sent = <<>>, !.resp = NoOutcome,
                 !.res = IF ok THEN Return(<<>>) ELSE Foreign("TimeoutExpired"),
                 !.live = IF fac.client = "open" THEN @ - 1 ELSE @,
                 !.client = IF fac.client = "none" THEN "none"
                            ELSE IF ok THEN "none" ELSE "closed"]
    /\ UNCHANGED <<nonFacadeVars, facLeft>>

\* The client handed out by the client property is closed by its holder.
ClientClosed ==
    /\ fac.pc = "idle"
    /\ fac.client = "open"
    /\ fac' = [fac EXCEPT !.client = "closed", !.live = @ - 1]
    /\ UNCHANGED <<nonFacadeVars, facLeft>>

FacadeNext ==
    \/ \E op \in FacadeOps : FacadeStart(op)
    \/ \E o \in SpawnFailures \cup {Return(<<>>)} : FacadeEnsure(o)
    \/ \E r \in CallResults : FacadeCall(r)
    \/ FacadeDecode
    \/ \E ok \in BOOLEAN : BackendClose(ok)
    \/ ClientClosed

FacadeSpec == FacadeInit /\ [][FacadeNext]_vars

\* ----------------------------------------------------------------- Decoder
\* Everything but the codec, left alone.
OthersParked ==
    /\ env = NoEnv /\ found = NotFoundYet
    /\ SpawnStart /\ spawnsLeft = 0
    /\ FacadeParked
    /\ ClientParked
    /\ isWindows = FALSE

RECURSIVE SeqsUpTo(_, _)
\* The sequences over alphabet of length at most n.
SeqsUpTo(alphabet, n) ==
    IF n = 0 THEN {<<>>}
    ELSE LET shorter == SeqsUpTo(alphabet, n - 1) IN
         shorter \cup {Append(q, b) : q \in shorter, b \in alphabet}

\* The buffers a Decoder is built on: arbitrary short ones, the payloads of
\* the helper's responses whole and cut short, and two string lists.
DecoderBuffers ==
    SeqsUpTo({0, 1, 127}, MaxBufLen)
    \cup ResponsePayloads
    \cup {BE(2, 4) \o Encoder_string(<<97>>) \o Encoder_string(<<>>),
          BE(2, 4) \o Encoder_string(<<97>>)}

DecoderMethods ==
    {"uint8", "uint16", "uint32", "uint64", "int32", "int64", "decode_bool",
     "string", "read_bytes", "string_slice"}

NoRead == [method |-> "", from |-> 0, ok |-> TRUE, exc |-> "", v |-> 0]

\* Decoder(buf)
DecoderInit ==
    /\ \E buf \in DecoderBuffers :
          cod = [mode |-> "decoder", buf |-> buf, pos |-> 0, left |-> MaxReads, last |-> NoRead]
    /\ ApiParked
    /\ OthersParked

\* One read on the decoder; a read that raised leaves the decoder where the
\* exception found it.
DecoderRead(method) ==
    /\ cod.left > 0
    /\ LET r == Decoder_read(method, cod.buf, cod.pos) IN
       cod' = [cod EXCEPT !.pos = r.pos, !.left = @ - 1,
                          !.last = [method |-> method, from |-> cod.pos, ok |-> r.ok,
                                    exc |-> r.exc, v |-> r.v]]
    /\ UNCHANGED nonCodecVars

DecoderNext == \E method \in DecoderMethods : DecoderRead(method)

DecoderSpec == DecoderInit /\ [][DecoderNext]_vars

\* ----------------------------------------------------------- Decoder.error
\* Error codes on the wire: none, the nine kinds, and others.
ErrorCodes == 0..10 \cup {99, 255}
\* Strings, by their code points: empty, ASCII, two-byte and three-byte UTF-8.
ErrorStrings == {<<>>, <<101>>, <<233, 8364>>}

\* The error payload as the helper writes it: the code, then message,
\* operation and path as strings; bare is the code byte alone; extra is
\* what follows in the buffer.
ErrorBuffer(c) ==
    <<c.code>>
    \o (IF c.bare THEN <<>>
        ELSE Encoder_str(c.message) \o Encoder_str(c.op) \o Encoder_str(c.path))
    \o c.extra

ErrorInit ==
    /\ \E code \in ErrorCodes, message \in ErrorStrings, op \in ErrorStrings,
          path \in ErrorStrings, bare \in BOOLEAN, extra \in {<<>>, <<0, 0, 0, 9>>} :
          /\ bare => (message = <<>> /\ op = <<>> /\ path = <<>>)
          /\ cod = [mode |-> "error", code |-> code, message |-> message, op |-> op,
                    path |-> path, bare |-> bare, extra |-> extra, done |-> FALSE,
                    res |-> NoOutcome, pos |-> 0]
    /\ ApiParked
    /\ OthersParked

\* err = Decoder(buf).error()
ErrorDecode ==
    /\ cod.mode = "error" /\ ~cod.done
    /\ LET res == Decoder_error(ErrorBuffer(cod)) IN
       cod' = [cod EXCEPT !.done = TRUE, !.res = res,
                 !.pos = IF res.kind = "raise" /\ res.cls \in {"ValueError", "UnicodeDecodeError"}
                         THEN 0 ELSE Decoder_error_pos(ErrorBuffer(cod))]
    /\ UNCHANGED nonCodecVars

ErrorNext == ErrorDecode

ErrorSpec == ErrorInit /\ [][ErrorNext]_vars

\* ------------------------------------------ encode_header / decode_header
\* Operation codes over the 16-bit range and payload lengths up to the
\* largest integer of the model checker (2^31 - 1).
HeaderOps == {0, 1, 255, 256, 32767, 32768, 65280, 65535}
HeaderLens == {0, 1, 255, 256, 65535, 65536, 1000000, 16777216, 2147483647}

HeaderInit ==
    /\ \E op \in HeaderOps, n \in HeaderLens :
          cod = [mode |-> "header", op |-> op, n |-> n, stage |-> "value",
                 hdr |-> <<>>, back |-> [msg_type |-> 0, payload_len |-> 0]]
    /\ ApiParked
    /\ OthersParked

\* header = encode_header(op, n)
HeaderEncode ==
    /\ cod.mode = "header" /\ cod.stage = "value"
    /\ cod' = [cod EXCEPT !.stage = "encoded", !.hdr = encode_header(cod.op, cod.n)]
    /\ UNCHANGED nonCodecVars

\* decode_header(header)
HeaderDecode ==
    /\ cod.mode = "header" /\ cod.stage = "encoded"
    /\ cod' = [cod EXCEPT !.stage = "decoded", !.back = decode_header(cod.hdr)]
    /\ UNCHANGED nonCodecVars

HeaderNext == HeaderEncode \/ HeaderDecode

HeaderSpec == HeaderInit /\ [][HeaderNext]_vars

\* ------------------------------------------------------ Encoder / Decoder
\* Values of each type that has a write and a read: zero, the ends of the
\* range and values between. 64-bit integers are given by four base-65536
\* digits; 32-bit unsigned ones go up to the largest integer of the model
\* checker (2^31 - 1); strings are given by their code points.
CodecValues(method) ==
    CASE method = "uint8" -> {0, 1, 127, 128, 255}
      [] method = "uint16" -> {0, 1, 255, 256, 32768, 65535}
      [] method = "uint32" -> {0, 1, 65535, 65536, 16777216, 2147483647}
      [] method = "uint64" ->
            {<<0, 0, 0, 0>>, <<0, 0, 0, 1>>, <<0, 1, 0, 0>>, <<32768, 0, 0, 0>>,
             <<65535, 65535, 65535, 65535>>}
      [] method = "int32" -> {0, 1, -1, 255, -256, 2147483647, (-2147483647) - 1}
      [] method = "int64" ->
            {<<0, 0, 0, 0>>, <<0, 0, 0, 1>>, <<-1, 65535, 65535, 65535>>,
             <<32767, 65535, 65535, 65535>>, <<-32768, 0, 0, 0>>}
      [] method = "decode_bool" -> BOOLEAN
      [] method = "string" ->
            {<<>>, <<101>>, <<0>>, <<233, 8364>>, <<104, 128512, 105>>, <<55296>>}
      [] method = "read_bytes" -> {<<>>, <<0>>, <<1, 0, 255>>, <<0, 0, 0, 1>>}
      [] OTHER -> {<<>>, <<<<>>>>, <<<<101>>, <<>>, <<233>>>>, <<<<104, 105>>, <<104, 105>>>>}

CodecInit ==
    /\ \E method \in DecoderMethods : \E v \in CodecValues(method) :
          cod = [mode |-> "codec", method |-> method, v |-> v, stage |-> "value",
                 bytes |-> <<>>, back |-> NoRead, pos |-> 0]
    /\ ApiParked
    /\ OthersParked

\* enc = Encoder(); enc.<write>(v); bytes = enc.get_bytes()
CodecEncode ==
    /\ cod.mode = "codec" /\ cod.stage = "value"
    /\ IF Encoder_raises(cod.method, cod.v)
       THEN cod' = [cod EXCEPT !.stage = "raised"]
       ELSE cod' = [cod EXCEPT !.stage = "encoded", !.bytes = Encoder_write(cod.method, cod.v)]
    /\ UNCHANGED nonCodecVars

\* dec = Decoder(bytes); back = dec.<read>()
CodecDecode ==
    /\ cod.mode = "codec" /\ cod.stage = "encoded"
    /\ LET r == Decoder_read(cod.method, cod.bytes, 0) IN
       cod' = [cod EXCEPT !.stage = "decoded", !.pos = r.pos,
                 !.back = [method |-> cod.method, from |-> 0, ok |-> r.ok,
                           exc |-> r.exc, v |-> r.v]]
    /\ UNCHANGED nonCodecVars

CodecNext == CodecEncode \/ CodecDecode

CodecSpec == CodecInit /\ [][CodecNext]_vars

\* ------------------------------------------------- Encoder: option records
\* Sample strings (code points): empty, ASCII, non-ASCII.
OptionStrings == {<<>>, <<97>>, <<233, 98>>}

\* Mount descriptors (tag, host_path, writable)
MountConfigs == {<<97>>, <<98>>} \X {<<>>, <<47, 104>>} \X BOOLEAN

\* The items of a dict of build arguments: pairs with distinct keys, in
\* insertion order.
BuildArgItems ==
    {items \in SeqsUpTo({<<65>>, <<66>>} \X {<<>>, <<49>>}, MaxItems) :
        \A i, j \in 1..Len(items) : i # j => items[i][1] # items[j][1]}

\* The scalar fields of InstanceOptions: memory_mb, cpus, timeout in
\* nanoseconds (0 s and 1 s), user, enable_dmesg.
InstanceScalars ==
    {<<<<0, 0, 0, 256>>, 1, <<0, 0, 0, 0>>, <<>>, FALSE>>,
     <<<<0, 0, 0, 1024>>, 2, <<0, 0, 15258, 51712>>, <<117>>, TRUE>>}

OptionsInit ==
    /\ cod = [mode |-> "options", kind |-> "none", scalars |-> <<>>, items |-> <<>>,
              out |-> <<>>]
    /\ ApiParked
    /\ OthersParked

\* Encoder().instance_options(...).get_bytes()
EncodeInstanceOptions(sc, mounts) ==
    /\ cod.mode = "options" /\ cod.kind = "none"
    /\ cod' = [cod EXCEPT !.kind = "instance_options", !.scalars = sc, !.items = mounts,
                  !.out = Encoder_instance_options(sc[1], sc[2], sc[3], sc[4], sc[5], mounts)]
    /\ UNCHANGED nonCodecVars

\* Encoder().snapshot_options(excludes, cache_dir).get_bytes()
EncodeSnapshotOptions(excludes, cache_dir) ==
    /\ cod.mode = "options" /\ cod.kind = "none"
    /\ cod' = [cod EXCEPT !.kind = "snapshot_options", !.scalars = <<cache_dir>>,
                  !.items = excludes,
                  !.out = Encoder_snapshot_options(excludes, cache_dir)]
    /\ UNCHANGED nonCodecVars

\* Encoder().dockerfile_options(dockerfile, context_dir, cache_dir, build_args).get_bytes()
EncodeDockerfileOptions(dockerfile, dirs, items) ==
    /\ cod.mode = "options" /\ cod.kind = "none"
    /\ cod' = [cod EXCEPT !.kind = "dockerfile_options",
                  !.scalars = <<dockerfile, dirs[1], dirs[2]>>, !.items = items,
                  !.out = Encoder_dockerfile_options(dockerfile, dirs[1], dirs[2], items)]
    /\ UNCHANGED nonCodecVars

OptionsNext ==
    \/ \E sc \in InstanceScalars, mounts \in SeqsUpTo(MountConfigs, MaxItems) :
          EncodeInstanceOptions(sc, mounts)
    \/ \E excludes \in SeqsUpTo(OptionStrings, MaxItems), cache_dir \in OptionStrings :
          EncodeSnapshotOptions(excludes, cache_dir)
    \/ \E dockerfile \in {<<>>, <<70, 0, 255>>}, dirs \in {<<<<>>, <<>>>>, <<<<46>>, <<47, 99>>>>},
           items \in BuildArgItems :
          EncodeDockerfileOptions(dockerfile, dirs, items)

OptionsSpec == OptionsInit /\ [][OptionsNext]_vars

\* ------------------------------------------- client.py: OCIClient, CancelToken
\* The two packages of the bindings: crumblecracker chooses between the
\* native library and the helper by _ffi.using_ipc(); cc has the native
\* library only.
Packages == {"crumblecracker", "cc"}

\* The directory the native library reports for a client made with the
\* argument cache_dir (None: its default).
LibCacheDir(arg) == IF arg = None THEN "default-cache" ELSE arg[1]

\* OCIClient.cache_dir: with the helper, the stored string; with the native
\* library, what the library reports for self.handle, which raises when the
\* client is closed.
OCIClient_cache_dir(o, pkg, ipc) ==
    IF pkg = "crumblecracker" /\ ipc THEN Return(<<o.cache_dir_str>>)
    ELSE IF o.closed THEN CCError("OCIClient is closed", CODE_OCI_CLIENT_CLOSED)
    ELSE Return(<<LibCacheDir(o.arg)>>)

\* OCIClient.close: frees the native handle, if there is one, and sets _closed
OCIClient_close(o, pkg, ipc) ==
    IF o.closed THEN o
    ELSE [o EXCEPT !.closed = TRUE,
                   !.lib = IF pkg = "crumblecracker" /\ ipc THEN @ ELSE "freed"]

NoOCIClient ==
    [made |-> FALSE, closed |-> FALSE, arg |-> None, cache_dir_str |-> "", lib |-> "none"]
NoCancelToken ==
    [made |-> FALSE, freed |-> FALSE, cancelled |-> FALSE, lib |-> "none", cancelCalled |-> FALSE]
NoApiCall == [op |-> "", res |-> NoOutcome, closedBefore |-> FALSE]

ApiInit ==
    /\ \E pkg \in Packages, ipc \in BOOLEAN :
          /\ pkg = "cc" => ~ipc
          /\ api = [mode |-> "api", pkg |-> pkg, ipc |-> ipc, oci |-> NoOCIClient,
                    tok |-> NoCancelToken, last |-> NoApiCall, left |-> MaxApiOps]
    /\ CodecParked
    /\ OthersParked

\* client = OCIClient(cache_dir)
OCINew(arg) ==
    /\ api.mode = "api" /\ api.left > 0 /\ ~api.oci.made
    /\ api' = [api EXCEPT
                  !.left = @ - 1,
                  !.oci = [made |-> TRUE, closed |-> FALSE, arg |-> arg,
                           cache_dir_str |-> IF arg = None THEN "" ELSE arg[1],
                           lib |-> IF api.pkg = "crumblecracker" /\ api.ipc
                                   THEN "none" ELSE "live"],
                  !.last = [op |-> "OCIClient", res |-> Return(<<>>), closedBefore |-> FALSE]]
    /\ UNCHANGED nonApiVars

\* client.close(), or the end of a with block
OCIClose ==
    /\ api.mode = "api" /\ api.left > 0 /\ api.oci.made
    /\ api' = [api EXCEPT
                  !.left = @ - 1,
                  !.oci = OCIClient_close(api.oci, api.pkg, api.ipc),
                  !.last = [op |-> "close", res |-> Return(<<>>),
                            closedBefore |-> api.oci.closed]]
    /\ UNCHANGED nonApiVars

\* client.cache_dir
OCICacheDir ==
    /\ api.mode = "api" /\ api.left > 0 /\ api.oci.made
    /\ api' = [api EXCEPT
                  !.left = @ - 1,
                  !.last = [op |-> "cache_dir",
                            res |-> OCIClient_cache_dir(api.oci, api.pkg, api.ipc),
                            closedBefore |-> api.oci.closed]]
    /\ UNCHANGED nonApiVars

\* token = CancelToken()
TokenNew ==
    /\ api.mode = "api" /\ api.left > 0 /\ ~api.tok.made
    /\ api' = [api EXCEPT
                  !.left = @ - 1,
                  !.tok = [made |-> TRUE, freed |-> FALSE, cancelled |-> FALSE,
                           lib |-> IF api.ipc THEN "none" ELSE "live",
                           cancelCalled |-> FALSE],
                  !.last = [op |-> "CancelToken", res |-> Return(<<>>), closedBefore |-> FALSE]]
    /\ UNCHANGED nonApiVars

\* token.close(), or the end of a with block: frees the native token once
TokenClose ==
    /\ api.mode = "api" /\ api.left > 0 /\ api.tok.made
    /\ api' = [api EXCEPT
                  !.left = @ - 1,
                  !.tok = IF api.tok.freed THEN @
                          ELSE [@ EXCEPT !.freed = TRUE,
                                         !.lib = IF api.ipc THEN @ ELSE "freed"],
                  !.last = [op |-> "close", res |-> Return(<<>>),
                            closedBefore |-> api.tok.freed]]
    /\ UNCHANGED nonApiVars

\* token.cancel(): sets _cancelled and, with the native library, cancels the
\* native token; on a freed token the library is given a stale handle.
TokenCancel ==
    /\ api.mode = "api" /\ api.left > 0 /\ api.tok.made
    /\ api' = [api EXCEPT
                  !.left = @ - 1,
                  !.tok = [@ EXCEPT !.cancelled = TRUE, !.cancelCalled = TRUE,
                                    !.lib = IF @ = "live" THEN "cancelled" ELSE @],
                  !.last = [op |-> "cancel", res |-> Return(<<>>),
                            closedBefore |-> api.tok.freed]]
    /\ UNCHANGED nonApiVars

\* token.is_cancelled: with the helper, the flag _cancelled; with the native
\* library, what the library answers for the handle; for the stale handle of
\* a freed token that answer (stale) is not determined by the bindings.
TokenIsCancelled(stale) ==
    /\ api.mode = "api" /\ api.left > 0 /\ api.tok.made
    /\ api.tok.lib # "freed" => stale = FALSE
    /\ LET answer == IF api.ipc THEN api.tok.cancelled
                     ELSE IF api.tok.lib = "freed" THEN stale
                     ELSE api.tok.lib = "cancelled"
       IN  api' = [api EXCEPT
                     !.left = @ - 1,
                     !.last = [op |-> "is_cancelled", res |-> Return(<<answer>>),
                               closedBefore |-> api.tok.freed]]
    /\ UNCHANGED nonApiVars

ApiNext ==
    \/ \E arg \in {None, Some("/cache")} : OCINew(arg)
    \/ OCIClose
    \/ OCICacheDir
    \/ TokenNew
    \/ TokenClose
    \/ TokenCancel
    \/ \E stale \in BOOLEAN : TokenIsCancelled(stale)

ApiSpec == ApiInit /\ [][ApiNext]_vars

\* ------------------------------------------------------------- cmd.py: Cmd
\* What a request of the backend gives a method of an API object: it returns,
\* the helper answers with an error (here: invalid handle), or the
\* connection fails.
BackendResults ==
    {Return(<<>>), error_from_code(1, <<101>>, None, None),
     CCError("Connection closed by helper", CODE_CONNECTION_CLOSED)}

\* A Cmd whose _free looks at _freed alone.
Cmd_free_sends_after_start(freed, started, handle) == ~freed /\ handle # 0

\* Cmd._free: if not self._freed and not self._started and self._handle
Cmd_free_sends(freed, started, handle) == ~freed /\ ~started /\ handle # 0

\* A Cmd whose start() has no guard.
Cmd_start_refused_never(started) == started /\ ~started

\* Cmd.start: if self._started: raise
Cmd_start_refused(started) == started

\* Cmd.wait: if not self._started: raise
Cmd_wait_refused(started) == ~started

\* The methods that run the command to its end in one request.
CmdRunMethods == {"run", "output", "combined_output"}

\* One entry of the history of a Cmd: the method invoked, the request it
\* sent ("" for none), whether the request succeeded, what the method gave,
\* and the flags after it.
CmdEntry(op, req, r, started, freed) ==
    [op |-> op, req |-> req, ok |-> (req # "" /\ r.kind = "return"), res |-> r,
     started |-> started, freed |-> freed]

\* Cmd(instance, name, args) under the helper backend, cmd_new having
\* returned the handle.
CmdInit ==
    /\ api = [mode |-> "cmd", handle |-> 1, started |-> FALSE, freed |-> FALSE, hist |-> <<>>]
    /\ CodecParked
    /\ OthersParked

\* The method has ended: its entry joins the history.
CmdDone(op, req, r, started, freed) ==
    /\ api' = [api EXCEPT !.started = started, !.freed = freed,
                          !.hist = Append(@, CmdEntry(op, req, r, started, freed))]
    /\ UNCHANGED nonApiVars

\* cmd.start()
CmdStart(r) ==
    /\ api.mode = "cmd" /\ Len(api.hist) < MaxCmdOps
    /\ IF Cmd_start_refused(api.started)
       THEN /\ r = Return(<<>>)
            /\ CmdDone("start", "", CCError("Cmd has already been started", CODE_CMD_STARTED),
                       api.started, api.freed)
       ELSE CmdDone("start", "cmd_start", r,
                    IF r.kind = "return" THEN TRUE ELSE api.started, api.freed)

\* cmd.wait()
CmdWait(r) ==
    /\ api.mode = "cmd" /\ Len(api.hist) < MaxCmdOps
    /\ IF Cmd_wait_refused(api.started)
       THEN /\ r = Return(<<>>)
            /\ CmdDone("wait", "", CCError("Cmd has not been started", CODE_CMD_NOT_STARTED),
                       api.started, api.freed)
       ELSE CmdDone("wait", "cmd_wait", r, api.started, api.freed)

\* cmd.run(), cmd.output(), cmd.combined_output(): self._started = True, then
\* the request
CmdRun(method, r) ==
    /\ api.mode = "cmd" /\ Len(api.hist) < MaxCmdOps
    /\ CmdDone(method, IF method = "run" THEN "cmd_run"
                       ELSE IF method = "output" THEN "cmd_output"
                       ELSE "cmd_combined_output",
               r, TRUE, api.freed)

\* cmd.kill()
CmdKill(r) ==
    /\ api.mode = "cmd" /\ Len(api.hist) < MaxCmdOps
    /\ IF api.freed
       THEN /\ r = Return(<<>>)
            /\ CmdDone("kill", "", Return(<<>>), api.started, api.freed)
       ELSE CmdDone("kill", "cmd_kill", r, api.started,
                    IF r.kind = "return" THEN TRUE ELSE api.freed)

\* cmd._free(), which __del__ calls
CmdFree(r) ==
    /\ api.mode = "cmd" /\ Len(api.hist) < MaxCmdOps
    /\ IF Cmd_free_sends(api.freed, api.started, api.handle)
       THEN CmdDone("_free", "cmd_free", r, api.started,
                    IF r.kind = "return" THEN TRUE ELSE api.freed)
       ELSE /\ r = Return(<<>>)
            /\ CmdDone("_free", "", Return(<<>>), api.started, api.freed)

CmdNext ==
    \/ \E r \in BackendResults : CmdStart(r)
    \/ \E r \in BackendResults : CmdWait(r)
    \/ \E method \in CmdRunMethods, r \in BackendResults : CmdRun(method, r)
    \/ \E r \in BackendResults : CmdKill(r)
    \/ \E r \in BackendResults : CmdFree(r)

CmdSpec == CmdInit /\ [][CmdNext]_vars

\* ------------------------ instance.py: File, Snapshot, Listener, Conn
ResourceKinds == {"File", "Snapshot", "Listener", "Conn"}

\* The ways close() is reached: directly, from __exit__, from __del__.
CloseWays == {"close", "__exit__", "__del__"}

\* The methods that start with 'if self._closed: raise CCError(..., code=4)'.
GuardedMethods(kind) ==
    CASE kind = "File" -> {"read", "write", "seek", "sync", "truncate", "stat"}
      [] kind = "Snapshot" -> {"cache_key", "parent", "as_source"}
      [] kind = "Listener" -> {"accept"}
      [] kind = "Conn" -> {"read", "write"}

\* The properties that answer from the object itself once it is closed.
QuietMethods(kind) ==
    CASE kind = "File" -> {"name"}
      [] kind = "Snapshot" -> {}
      [] kind = "Listener" -> {"addr"}
      [] kind = "Conn" -> {"local_addr", "remote_addr"}

\* The literal of the error a closed object raises.
ClosedLiteral(kind) ==
    CASE kind = "File" -> "File is closed"
      [] kind = "Snapshot" -> "Snapshot is closed"
      [] kind = "Listener" -> "Listener is closed"
      [] kind = "Conn" -> "Connection is closed"

\* The backend method an operation of an object calls.
BackendMethod(kind, method) ==
    (CASE kind = "File" -> "file"
       [] kind = "Snapshot" -> "snapshot"
       [] kind = "Listener" -> "listener"
       [] kind = "Conn" -> "conn") \o "_" \o method

\* An object whose close() looks at the handle alone.
Resource_close_sends_always(flag, handle) == handle # None

\* File/Snapshot/Listener/Conn.close: if not self._closed and self._handle is not None
Resource_close_sends(flag, handle) == ~flag /\ handle # None

\* One entry of the history of an object: the method invoked, the request
\* it sent ("" for none), whether the request succeeded, what the method
\* gave, and the closed flag after it.
ResourceEntry(op, req, r, flag) ==
    [op |-> op, req |-> req, ok |-> (req # "" /\ r.kind = "return"), res |-> r,
     closed |-> flag]

\* An object of one of the four classes as the helper backend hands it out:
\* Xxx(ipc_handle, _ipc=True).
ResourceInit ==
    /\ \E kind \in ResourceKinds :
         api = [mode |-> "resource", kind |-> kind, handle |-> Some(1), path |-> <<47, 102>>,
                closed |-> FALSE, hist |-> <<>>]
    /\ CodecParked
    /\ OthersParked

\* The method has ended: its entry joins the history.
ResourceDone(op, req, r, flag) ==
    /\ api' = [api EXCEPT !.closed = flag,
                          !.hist = Append(@, ResourceEntry(op, req, r, flag))]
    /\ UNCHANGED nonApiVars

\* close(), __exit__(), __del__(): the close request, then self._closed = True
ResourceClose(way, r) ==
    /\ api.mode = "resource" /\ Len(api.hist) < MaxResourceOps
    /\ IF Resource_close_sends(api.closed, api.handle)
       THEN ResourceDone(way, BackendMethod(api.kind, "close"), r,
                         IF r.kind = "return" THEN TRUE ELSE api.closed)
       ELSE /\ r = Return(<<>>)
            /\ ResourceDone(way, "", Return(<<>>), api.closed)

\* read, write, seek, sync, truncate, stat / cache_key, parent, as_source /
\* accept / read, write
ResourceCall(method, r) ==
    /\ api.mode = "resource" /\ Len(api.hist) < MaxResourceOps
    /\ method \in GuardedMethods(api.kind)
    /\ IF api.closed
       THEN /\ r = Return(<<>>)
            /\ ResourceDone(method, "", CCError(ClosedLiteral(api.kind), CODE_RESOURCE_CLOSED),
                            api.closed)
       ELSE ResourceDone(method, BackendMethod(api.kind, method), r, api.closed)

\* File.name / Listener.addr / Conn.local_addr, Conn.remote_addr
ResourceGet(method, r) ==
    /\ api.mode = "resource" /\ Len(api.hist) < MaxResourceOps
    /\ method \in QuietMethods(api.kind)
    /\ IF api.closed
       THEN /\ r = Return(<<>>)
            /\ ResourceDone(method, "",
                            Return(IF api.kind = "File" THEN api.path ELSE <<>>), api.closed)
       ELSE ResourceDone(method, BackendMethod(api.kind, method), r, api.closed)

AllGuardedMethods == UNION {GuardedMethods(kind) : kind \in ResourceKinds}
AllQuietMethods == UNION {QuietMethods(kind) : kind \in ResourceKinds}

ResourceNext ==
    \/ \E way \in CloseWays, r \in BackendResults : ResourceClose(way, r)
    \/ \E method \in AllGuardedMethods, r \in BackendResults : ResourceCall(method, r)
    \/ \E method \in AllQuietMethods, r \in BackendResults : ResourceGet(method, r)

ResourceSpec == ResourceInit /\ [][ResourceNext]_vars

\* ------------------------------------------------- instance.py: Instance
\* What the instance_id and instance_is_running requests may give.
InstanceIdResults == (BackendResults \ {Return(<<>>)}) \cup {Return(<<105, 49>>)}
InstanceRunningResults == (BackendResults \ {Return(<<>>)}) \cup {Return(<<1>>), Return(<<0>>)}

\* An Instance whose close() always sends.
Instance_close_sends_always(flag) == flag \/ ~flag

\* Instance.close: if not self._closed
Instance_close_sends(flag) == ~flag

\* Instance.__init__ up to 'self._closed = True', before instance_new.
InstanceInit ==
    /\ api = [mode |-> "instance", made |-> FALSE, closed |-> TRUE, hist |-> <<>>]
    /\ CodecParked
    /\ OthersParked

\* The method has ended: its entry joins the history.
InstanceDone(op, req, r, flag) ==
    /\ api' = [api EXCEPT !.made = TRUE, !.closed = flag,
                          !.hist = Append(@, ResourceEntry(op, req, r, flag))]
    /\ UNCHANGED nonApiVars

\* The rest of Instance.__init__: backend.instance_new(...), then
\* self._closed = False
InstanceNew(r) ==
    /\ api.mode = "instance" /\ ~api.made
    /\ InstanceDone("__init__", "instance_new", r,
                    IF r.kind = "return" THEN FALSE ELSE api.closed)

\* close(), __exit__(), __del__()
InstanceClose(way, r) ==
    /\ api.mode = "instance" /\ api.made /\ Len(api.hist) < MaxInstanceOps
    /\ IF Instance_close_sends(api.closed)
       THEN InstanceDone(way, "instance_close", r,
                         IF r.kind = "return" THEN TRUE ELSE api.closed)
       ELSE /\ r = Return(<<>>)
            /\ InstanceDone(way, "", Return(<<>>), api.closed)

\* Instance.id
InstanceId(r) ==
    /\ api.mode = "instance" /\ api.made /\ Len(api.hist) < MaxInstanceOps
    /\ IF api.closed
       THEN /\ r = Return(<<105, 49>>)
            /\ InstanceDone("id", "", Return(<<>>), api.closed)
       ELSE InstanceDone("id", "instance_id", r, api.closed)

\* Instance.is_running
InstanceIsRunning(r) ==
    /\ api.mode = "instance" /\ api.made /\ Len(api.hist) < MaxInstanceOps
    /\ IF api.closed
       THEN /\ r = Return(<<1>>)
            /\ InstanceDone("is_running", "", Return(<<0>>), api.closed)
       ELSE InstanceDone("is_running", "instance_is_running", r, api.closed)

InstanceNext ==
    \/ \E r \in BackendResults : InstanceNew(r)
    \/ \E way \in CloseWays, r \in BackendResults : InstanceClose(way, r)
    \/ \E r \in InstanceIdResults : InstanceId(r)
    \/ \E r \in InstanceRunningResults : InstanceIsRunning(r)

InstanceSpec == InstanceInit /\ [][InstanceNext]_vars

\* ----------------------------------------------------------- specification
Next ==
    \/ \E t \in Threads : \E rq \in Requests(t) : StartCall(t, rq.msg_type, rq.payload)
    \/ \E t \in Threads : CallLock(t)
    \/ \E t \in Threads : CallCheck(t)
    \/ \E t \in Threads : SendHeader(t)
    \/ \E t \in Threads : SendPayload(t)
    \/ \E t \in Threads : Recv(t)
    \/ \E t \in Threads : Dispatch(t)
    \/ \E t \in Threads : StartClose(t)
    \/ \E t \in Threads : CloseCheck(t)
    \/ \E t \in Threads : CloseSet(t)
    \/ \E t \in Threads : CloseSock(t)
    \/ \E t \in Threads : CloseWait(t)
    \/ \E t \in Threads : \E killed \in BOOLEAN : CloseKill(t, killed)
    \/ \E t \in Threads : \E removed \in BOOLEAN : CloseRemove(t, removed)
    \/ \E mode \in PeerModes : \E code \in PeerErrorCodes : PeerRespond(mode, code)
    \/ \E mode \in PeerModes : \E code \in PeerErrorCodes : PeerRespondCut(mode, code)
    \/ PeerClose
    \/ ProcessExit

Spec == Init /\ [][Next]_vars

\* ----------------------------------- call() against a helper that answers
\* The steps of a thread within call() once it holds the lock, up to the
\* end of the read.
CallBody(t) ==
    \/ CallCheck(t)
    \/ SendHeader(t)
    \/ SendPayload(t)
    \/ Recv(t)

\* The steps of a thread within call() once it holds the lock.
CallStep(t) ==
    \/ CallBody(t)
    \/ Dispatch(t)

\* The helper answers the request it has read with a complete frame.
PeerAnswers == \E mode \in PeerModes : \E code \in PeerErrorCodes : PeerRespond(mode, code)

\* Threads calling a client that nobody closes, the helper staying up.
CallNext ==
    \/ \E t \in Threads : \E rq \in Requests(t) : StartCall(t, rq.msg_type, rq.payload)
    \/ \E t \in Threads : CallLock(t)
    \/ \E t \in Threads : CallStep(t)
    \/ PeerAnswers

\* A client that spawn_helper returned, on a platform other than Windows.
CallInit == Init /\ process = "running" /\ ~isWindows

CallSpec == CallInit /\ [][CallNext]_vars

\* Every thread within call() goes on running, a thread that finds the lock
\* free again and again gets it in the end, and the helper answers every
\* request it has received. For Dispatch(t), which is enabled exactly while
\* pc[t] = "dispatch" and is the one step that leaves that position, weak
\* fairness is written out: the thread is not at "dispatch" for ever.
FairCallSpec ==
    /\ CallSpec
    /\ \A t \in Threads : WF_vars(CallBody(t)) /\ SF_vars(CallLock(t))
    /\ \A t \in Threads : []<>(pc[t] # "dispatch")
    /\ WF_vars(PeerAnswers)

\* ------------------------------------------------------------- connect_to
\* How the client under study comes to be: by connect_to(socket_path), which
\* may fail, or by the IPCClient(sock, socket_path, process) of spawn_helper.
\* Until then no thread has a client to use.
NoConnect == [mode |-> "connect", made |-> "no", socks |-> 0, closedSocks |-> 0,
              res |-> NoOutcome]

ConnectInit ==
    /\ ClientInit
    /\ process = "none"
    /\ opsLeft = 0
    /\ api = NoConnect
    /\ env = NoEnv /\ found = NotFoundYet
    /\ SpawnStart /\ spawnsLeft = 0
    /\ FacadeParked /\ CodecParked

\* connect_to(socket_path): a socket is created; if connect raises OSError
\* the socket is closed and CCError(code=7) raised, otherwise the client is
\* IPCClient(sock, socket_path) with no process.
ConnectTo(connected) ==
    /\ api.mode = "connect" /\ api.made = "no"
    /\ IF connected
       THEN /\ api' = [api EXCEPT !.made = "connect_to", !.socks = @ + 1,
                                  !.res = Return(<<>>)]
            /\ opsLeft' = MaxOps
       ELSE /\ api' = [api EXCEPT !.made = "failed", !.socks = @ + 1,
                                  !.closedSocks = @ + 1,
                                  !.res = CCError("Failed to connect to cc-helper",
                                                  CODE_CONNECT_FAILED)]
            /\ UNCHANGED opsLeft
    /\ UNCHANGED <<clientVars, wireVars, threadVars, sockUser, closeCompleted, nSockClose,
                   nProcWait, nRemove, findVars, spawnVars, facadeVars, codecVars>>

\* spawn_helper: return IPCClient(sock, socket_path, process)
SpawnedClient ==
    /\ api.mode = "connect" /\ api.made = "no"
    /\ api' = [api EXCEPT !.made = "spawn_helper", !.socks = @ + 1, !.res = Return(<<>>)]
    /\ process' = "running"
    /\ opsLeft' = MaxOps
    /\ UNCHANGED <<closed, lock, sockOpen, socketFile, isWindows, wireVars, threadVars,
                   sockUser, closeCompleted, nSockClose, nProcWait, nRemove, findVars,
                   spawnVars, facadeVars, codecVars>>

ConnectNext ==
    \/ \E connected \in BOOLEAN : ConnectTo(connected)
    \/ SpawnedClient
    \/ Next

ConnectSpec == ConnectInit /\ [][ConnectNext]_vars

\* ------------------------------------------------------------- properties
CallStates == {"call_lock", "call_check", "send_header", "send_payload",
               "recv_header", "recv_payload", "dispatch"}
RecvStates == {"recv_header", "recv_payload"}
\* The positions of call() at which it writes to or reads from the socket.
SocketStates == {"send_header", "send_payload", "recv_header", "recv_payload"}
\* From the first header byte written to the last response byte read.
InFlight(t) == pc[t] \in {"send_payload", "recv_header", "recv_payload"}

CallEnded(t) == gh[t].op = "call" /\ pc[t] = "idle"
CloseEnded(t) == gh[t].op = "close" /\ pc[t] = "idle"

RECURSIVE WholeFrames(_)
\* bs is a sequence of whole frames: header, then the payload it declares.
WholeFrames(bs) ==
    \/ bs = <<>>
    \/ /\ Len(bs) >= HEADER_SIZE
       /\ LET n == decode_header(SubSeq(bs, 1, HEADER_SIZE)).payload_len IN
          /\ Len(bs) >= HEADER_SIZE + n
          /\ WholeFrames(SubSeq(bs, HEADER_SIZE + n + 1, Len(bs)))

\* C1: at most one request is in flight on the connection. While a caller is
\* between the first byte of its request header and the last byte of its
\* response, it holds the lock, it is the only thread that has touched the
\* socket since, and no other caller is at a socket operation; on a live
\* connection the bytes sent are whole request frames, but for the payload
\* the caller in flight has still to send.
C1_OneRequestInFlight ==
    /\ \A t \in Threads :
          InFlight(t) =>
             /\ lock = t
             /\ sockUser = t
             /\ \A u \in Threads \ {t} : pc[u] \notin SocketStates \cup {"dispatch"}
    /\ (sockOpen /\ peerOpen /\ \A t \in Threads : pc[t] # "send_payload")
          => WholeFrames(c2s)

\* A caller is in flight while another one waits for the lock.
C1_Witness ==
    \E t, u \in Threads : InFlight(t) /\ u # t /\ pc[u] = "call_lock"

\* The frames with which the helper may answer the request of thread t.
OwnFrames(t) ==
    {PeerResponse(mode, code, loc[t].msg_type, loc[t].payload) :
        mode \in PeerModes, code \in PeerErrorCodes}

IsPrefix(a, b) == Len(a) <= Len(b) /\ a = SubSeq(b, 1, Len(a))

\* C2: against a helper that answers in arrival order and echoes the
\* request's payload (which carries the caller's marker), the bytes a caller
\* has read are at every moment the beginning of a response to its own
\* request; a caller that gets a value gets its own payload back, and a
\* caller that gets a decoded remote error gets the one that names its own
\* payload.
C2_OwnResponse ==
    \A t \in Threads :
       gh[t].op = "call" =>
          /\ \E f \in OwnFrames(t) : IsPrefix(gh[t].hdr \o gh[t].taken, f)
          /\ (pc[t] = "idle" /\ result[t].kind = "return")
                => result[t].value = loc[t].payload
          /\ (pc[t] = "idle" /\ result[t].kind = "raise"
                /\ result[t].code \in PeerErrorCodes)
                => result[t].message = loc[t].payload

\* Two callers have each got their own marker back.
C2_Witness ==
    \E t, u \in Threads :
       /\ t # u
       /\ CallEnded(t) /\ result[t].kind = "return" /\ result[t].value = <<Marker(t)>>
       /\ CallEnded(u) /\ result[u].kind = "return" /\ result[u].value = <<Marker(u)>>

\* C3: a call() begun after a close() has ended touches the socket at no
\* point and ends with CCError("Client closed", code=4).
C3_CallAfterClose ==
    \A t \in Threads :
       (gh[t].op = "call" /\ gh[t].late) =>
          /\ ~gh[t].io
          /\ pc[t] \in {"call_lock", "call_check", "idle"}
          /\ pc[t] = "idle" => result[t] = CCError("Client closed", CODE_CLIENT_CLOSED)

\* Such a call has ended.
C3_Witness ==
    \E t \in Threads :
       CallEnded(t) /\ gh[t].late /\ result[t].code = CODE_CLIENT_CLOSED

\* C4: once a recv of call() has returned no byte (the helper closed its end
\* before the header or the declared payload was complete) the call has ended
\* with CCError("Connection closed by helper", code=7); and a call that
\* returns a value has read a whole header and as many payload bytes as that
\* header declares.
C4_DisconnectFails ==
    \A t \in Threads :
       gh[t].op = "call" =>
          /\ gh[t].eof =>
                /\ pc[t] = "idle"
                /\ result[t] = CCError("Connection closed by helper", CODE_CONNECTION_CLOSED)
          /\ (pc[t] = "idle" /\ result[t].kind = "return") =>
                /\ Len(gh[t].hdr) = HEADER_SIZE
                /\ Len(result[t].value) = decode_header(gh[t].hdr).payload_len

\* The helper closed its end after the header, within the payload.
C4_Witness ==
    \E t \in Threads :
       /\ CallEnded(t) /\ gh[t].eof /\ Len(gh[t].hdr) = HEADER_SIZE
       /\ result[t].code = CODE_CONNECTION_CLOSED

\* C5: however the stream is cut into fragments, _recv_exact(n) collects the
\* bytes the socket delivered, in order and never more than n; the header
\* it returns is the next 6 bytes of the stream, the payload the next
\* resp_len bytes; no recv takes bytes of two frames, and when the response
\* is read the stream is at the end of a frame.
C5_ExactRead ==
    /\ ~crossed
    /\ \A t \in Threads :
          gh[t].op = "call" =>
             /\ pc[t] \in RecvStates =>
                   /\ loc[t].data = gh[t].taken
                   /\ Len(loc[t].data) <
                         (IF pc[t] = "recv_header" THEN HEADER_SIZE
                          ELSE decode_header(gh[t].hdr).payload_len)
             /\ loc[t].resp_header = gh[t].hdr
             /\ Len(gh[t].hdr) \in {0, HEADER_SIZE}
             /\ gh[t].complete =>
                   /\ loc[t].resp_payload = gh[t].taken
                   /\ Len(loc[t].resp_payload) = decode_header(gh[t].hdr).payload_len
             /\ pc[t] = "dispatch" => rxInFrame = 0

\* A payload that arrived in fragments has been returned whole.
C5_Witness ==
    \E t \in Threads :
       /\ CallEnded(t) /\ gh[t].frag /\ gh[t].complete
       /\ result[t].kind = "return" /\ result[t].value = <<Marker(t)>>

\* The optional string of an exception field, "" when it is None
OrEmpty(o) == IF o = None THEN <<>> ELSE o[1]

\* C6 as stated: a call that has read a whole response returns its payload
\* when the code is not MSG_ERROR, and otherwise raises the error decoded
\* from the payload (the payload's code byte and strings).
C6_Original ==
    \A t \in Threads :
       (CallEnded(t) /\ gh[t].complete) =>
          IF loc[t].resp_type # MSG_ERROR
          THEN result[t] = Return(loc[t].resp_payload)
          ELSE /\ result[t].kind = "raise"
               /\ result[t].lit = ""
               /\ result[t].cls = ErrorClassOf(result[t].code)
               /\ loc[t].resp_payload # <<>>
               /\ result[t].code = loc[t].resp_payload[1]

\* C6 (amended): a call that has read a whole response returns a value if
\* and only if the code is not MSG_ERROR, and the value is the payload; for
\* MSG_ERROR it raises: the error whose code, message, operation and path
\* are those the payload encodes, or, when the code byte is 0, the unknown
\* error of code 99, or, when the payload cannot be decoded, the decoder's
\* own exception.
C6_ReturnIffNotError ==
    \A t \in Threads :
       (CallEnded(t) /\ gh[t].complete) =>
          /\ (result[t].kind = "return") <=> (loc[t].resp_type # MSG_ERROR)
          /\ loc[t].resp_type # MSG_ERROR => result[t] = Return(loc[t].resp_payload)
          /\ loc[t].resp_type = MSG_ERROR =>
                /\ result[t].kind = "raise"
                /\ \/ /\ result[t].code # ERR_CODE_OK
                      /\ result[t].lit = ""
                      /\ result[t].cls = ErrorClassOf(result[t].code)
                      /\ loc[t].resp_payload =
                            ErrorPayload(result[t].code, result[t].message,
                                         OrEmpty(result[t].op), OrEmpty(result[t].path))
                   \/ /\ loc[t].resp_payload # <<>>
                      /\ loc[t].resp_payload[1] = ERR_CODE_OK
                      /\ result[t] = CCError("Unknown error from helper", CODE_UNKNOWN_ERROR)
                   \/ /\ loc[t].resp_payload = <<>> \/ loc[t].resp_payload[1] # ERR_CODE_OK
                      /\ result[t].cls \in {"ValueError", "UnicodeDecodeError"}

\* An error response whose code byte is 0 has raised the unknown error.
C6_Witness ==
    \E t \in Threads :
       /\ CallEnded(t) /\ gh[t].complete /\ loc[t].resp_type = MSG_ERROR
       /\ result[t].code = CODE_UNKNOWN_ERROR

\* C7: a close() begun after a close() has ended does nothing: it does not
\* pass the guard, closes no socket, waits for and kills no process, removes
\* no file, and returns.
C7_CloseIdempotent ==
    \A t \in Threads :
       (gh[t].op = "close" /\ gh[t].late) =>
          /\ ~gh[t].tore
          /\ gh[t].cSock = 0 /\ gh[t].cWait = 0 /\ gh[t].cKill = 0 /\ gh[t].cRm = 0
          /\ pc[t] \in {"close_check", "idle"}
          /\ pc[t] = "idle" => result[t] = Return(<<>>)

\* A second close() has returned after the first one tore the connection down.
C7_Witness ==
    \E t \in Threads :
       /\ CloseEnded(t) /\ gh[t].late /\ result[t].kind = "return"
       /\ nSockClose = 1 /\ nRemove = 1

\* A close() that passed the guard and returned, on a client with a process.
TornDown(t) ==
    /\ CloseEnded(t) /\ gh[t].tore /\ result[t].kind = "return"
    /\ process # "none"

\* C8 as stated: after close() on a connection that owns a helper process
\* the socket file does not exist.
C8_Original ==
    \A t \in Threads : TornDown(t) => ~socketFile

\* C8 (amended): after such a close() has returned, the socket file does not
\* exist unless every os.remove attempt of _remove_socket failed: one
\* attempt, five on Windows.
C8_RemovedUnlessGivenUp ==
    \A t \in Threads :
       TornDown(t) =>
          /\ gh[t].cRm >= 1
          /\ socketFile => gh[t].cRm = (IF isWindows THEN REMOVE_ATTEMPTS_WINDOWS ELSE 1)

\* On Windows, the file was removed at a retry.
C8_Witness ==
    \E t \in Threads : TornDown(t) /\ ~socketFile /\ isWindows /\ gh[t].cRm > 1

\* C9 as stated: over all close() invocations the socket close, the
\* subprocess wait and the removal of the socket file each run at most once,
\* and once a close() that passed the guard has returned each has run (the
\* wait, if there is a process).
C9_Original ==
    /\ nSockClose <= 1 /\ nProcWait <= 1 /\ nRemove <= 1
    /\ (\E t \in Threads : CloseEnded(t) /\ gh[t].tore /\ result[t].kind = "return") =>
          /\ nSockClose = 1
          /\ nRemove = 1
          /\ process # "none" => nProcWait = 1

\* C10 as stated: the teardown steps come in the fixed order, and whenever a
\* close() has returned the process, if there is one, has exited.
C10_Original ==
    \A t \in Threads :
       gh[t].op = "close" =>
          /\ (gh[t].cWait > 0 \/ gh[t].cKill > 0 \/ gh[t].cRm > 0) => gh[t].cSock = 1
          /\ gh[t].cKill > 0 => gh[t].cWait = 1
          /\ gh[t].cRm > 0 => (process # "none" => gh[t].cWait = 1)
          /\ (pc[t] = "idle" /\ result[t].kind = "return") =>
                process \in {"none", "exited"}

\* C10 (amended): a close() that passes the guard closes the socket first;
\* it kills the process only after the wait of the grace period; it removes
\* the socket file only after the process, if there is one, was waited for
\* and has exited; and when such a close() returns the process has exited.
C10_TeardownOrder ==
    \A t \in Threads :
       gh[t].op = "close" =>
          /\ (gh[t].cWait > 0 \/ gh[t].cKill > 0 \/ gh[t].cRm > 0) => gh[t].cSock = 1
          /\ gh[t].cSock > 0 => ~sockOpen
          /\ gh[t].cKill > 0 => gh[t].cWait = 1
          /\ (pc[t] = "close_remove" \/ gh[t].cRm > 0) =>
                (process # "none" => gh[t].cWait = 1 /\ process = "exited")
          /\ (pc[t] = "idle" /\ gh[t].tore /\ result[t].kind = "return") =>
                /\ gh[t].cSock = 1 /\ gh[t].cRm >= 1
                /\ process \in {"none", "exited"}

\* A close() has returned after it had to kill the helper.
C10_Witness ==
    \E t \in Threads :
       /\ CloseEnded(t) /\ gh[t].tore /\ result[t].kind = "return"
       /\ gh[t].cKill = 1 /\ process = "exited"

\* ------------------------------------------- properties: helper discovery
\* The search came to an end with the override set to a path that holds no file.
OverrideMissing ==
    found.ran /\ Truthy(env.env_path) /\ ~isfile(env, env.env_path[1])

\* C11 as stated: with CC_HELPER_PATH naming a file that does not exist, the
\* search fails without looking anywhere else: no path is returned and the
\* searched list holds that one path only.
C11_Original ==
    OverrideMissing =>
       /\ found.path = None
       /\ found.searched = <<env.env_path[1]>>

\* The places the search looks at, in the order of the four strategies,
\* each with what lies there.
Probes(e) ==
    (IF Truthy(e.env_path)
     THEN <<[loc |-> e.env_path[1], holds |-> isfile(e, e.env_path[1])]>>
     ELSE <<>>)
    \o <<[loc |-> Join(PkgDir, helper_name(e.system)),
          holds |-> isfile(e, Join(PkgDir, helper_name(e.system)))],
         [loc |-> Join(Dirname(PkgDir), helper_name(e.system)),
          holds |-> isfile(e, Join(Dirname(PkgDir), helper_name(e.system)))]>>
    \o (IF user_dir(e) = None THEN <<>>
        ELSE <<[loc |-> Join(user_dir(e)[1], helper_name(e.system)),
                holds |-> isfile(e, Join(user_dir(e)[1], helper_name(e.system)))]>>)
    \o <<[loc |-> IF Truthy(e.which) THEN e.which[1] ELSE PathMarker,
          holds |-> Truthy(e.which)]>>

\* The index of the first probe that holds a helper, 0 if none does.
FirstHit(ps) ==
    IF \E i \in 1..Len(ps) : ps[i].holds
    THEN CHOOSE i \in 1..Len(ps) : ps[i].holds /\ \A j \in 1..(i - 1) : ~ps[j].holds
    ELSE 0

\* C12: the search returns the first location, in the order override,
\* package directory, its parent, user directory, search path, that holds a
\* helper, and None if none does; after a hit the searched list is empty.
C12_FirstHitInOrder ==
    found.ran =>
       LET ps == Probes(env)
           i == FirstHit(ps)
       IN  IF i = 0 THEN found.path = None
           ELSE found.path = Some(ps[i].loc) /\ found.searched = <<>>

\* The helper beside the package's parent was returned although the user
\* directory and the search path hold one too, and the override holds none.
C12_Witness ==
    /\ OverrideMissing
    /\ found.path = Some(Join(Dirname(PkgDir), helper_name(env.system)))
    /\ user_dir(env) # None
    /\ isfile(env, Join(user_dir(env)[1], helper_name(env.system)))
    /\ Truthy(env.which)

\* ----------------------------------------------- properties: spawn_helper
SpawnEnded(t) == sp[t].pc = "idle" /\ sp[t].res.kind # "none"
\* No location of the environment holds a helper.
NoHelper == FirstHit(Probes(env)) = 0
\* The locations of the probes, in order.
ProbeLocs(e) == [i \in 1..Len(Probes(e)) |-> Probes(e)[i].loc]

\* C13: where no location holds a helper, every spawn_helper that has ended
\* has raised HelperNotFoundError, whose searched list is the list of all
\* the locations looked at, in order; it has taken no count, built no path
\* and started no process, and so the counter is still 0 and no process
\* exists.
C13_NotFoundBeforeSpawn ==
    /\ NoHelper =>
          /\ counter = 0 /\ issued = <<>> /\ procs = <<>> /\ sockFiles = {}
          /\ \A t \in Threads :
                SpawnEnded(t) =>
                   /\ sp[t].res.kind = "raise"
                   /\ sp[t].res.cls = "HelperNotFoundError"
    /\ \A t \in Threads :
          sp[t].res.cls = "HelperNotFoundError" =>
             /\ NoHelper
             /\ sp[t].res.searched_paths = ProbeLocs(env)
             /\ sp[t].count = 0 /\ sp[t].socket_path = NoPath /\ sp[t].process = 0

\* A spawn has failed with the five locations of a Linux search.
C13_Witness ==
    \E t \in Threads :
       /\ SpawnEnded(t) /\ sp[t].res.cls = "HelperNotFoundError"
       /\ Len(sp[t].res.searched_paths) = 5

\* C14: the counts given out are strictly increasing in the order in which
\* they were read, so no two are equal, and the paths built from them are
\* pairwise distinct; the counter is read and written under the lock only.
C14_DistinctPaths ==
    /\ \A i, j \in 1..Len(issued) :
          i < j => /\ issued[i].count < issued[j].count
                   /\ issued[i].path # issued[j].path
    /\ \A t \in Threads :
          sp[t].pc \in {"path_read", "path_write", "path_count"} => counterLock = t

\* Two threads have each been given a path.
C14_Witness ==
    /\ Len(issued) = 2
    /\ \E t, u \in Threads : t # u /\ sp[t].count # 0 /\ sp[u].count # 0

\* spawn_helper has failed with the connect error raised after the loop.
TimedOut(t) == SpawnEnded(t) /\ sp[t].res.cls = "CCError"
\* The last error the connect attempts of the invocation met, None if none.
LastSeen(t) ==
    IF sp[t].errs = <<>> THEN None ELSE Some(sp[t].errs[Len(sp[t].errs)])

\* C15 as stated: after the failure at the deadline the child is killed and
\* reaped, no file is left at the socket path, and the error carries the
\* last error seen.
C15_Original ==
    \A t \in Threads :
       TimedOut(t) =>
          /\ procs[sp[t].process].st = "exited" /\ procs[sp[t].process].reaped
          /\ sp[t].socket_path \notin sockFiles
          /\ sp[t].res.last_err = LastSeen(t)

\* C15 (amended): the cleanup begins only once the deadline is over; the
\* child is killed and reaped before the first attempt to remove the socket
\* file; the failure is raised after the file was removed or every attempt
\* (one, five on Windows) has failed; it is the CCError of code 7 that
\* carries the last error seen.
C15_KillThenRemove ==
    \A t \in Threads :
       /\ (sp[t].pc \in {"kill", "remove"} \/ TimedOut(t)) =>
             ~before_deadline(sp[t].elapsed)
       /\ (sp[t].pc = "remove" \/ sp[t].removes > 0) =>
             procs[sp[t].process].st = "exited" /\ procs[sp[t].process].reaped
       /\ TimedOut(t) =>
             /\ procs[sp[t].process].st = "exited" /\ procs[sp[t].process].reaped
             /\ sp[t].removes >= 1
             /\ sp[t].socket_path \in sockFiles =>
                   sp[t].removes = (IF isWindows THEN REMOVE_ATTEMPTS_WINDOWS ELSE 1)
             /\ sp[t].res.code = CODE_CONNECT_FAILED
             /\ sp[t].res.last_err = LastSeen(t)

\* A spawn has failed after a refused connection, and the file the helper
\* had bound is gone.
C15_Witness ==
    \E t \in Threads :
       /\ TimedOut(t) /\ sp[t].res.last_err = Some("ConnectionRefusedError")
       /\ sp[t].socket_path \notin sockFiles

\* C16: every spawn_helper that has begun comes to an end; a connect attempt
\* is made, and slept after, only before the deadline; and a client that is
\* returned is connected, to the process this invocation started.
C16_SpawnTerminates ==
    /\ \A t \in Threads : (sp[t].pc # "idle") ~> (sp[t].pc = "idle")
    /\ [](\A t \in Threads :
            /\ sp[t].pc \in {"connect", "sleep"} => before_deadline(sp[t].elapsed)
            /\ sp[t].res.kind = "return" =>
                  /\ clients[sp[t].res.client].connected
                  /\ clients[sp[t].res.client].process = sp[t].process
                  /\ clients[sp[t].res.client].socket_path = sp[t].socket_path)

\* A client was returned at a retry, after a refused connection.
C16_Witness ==
    \E t \in Threads :
       /\ SpawnEnded(t) /\ sp[t].res.kind = "return"
       /\ sp[t].errs # <<>> /\ sp[t].elapsed > 0

\* C17 as stated: no two clients own the same process, every client
\* returned owns the process its spawn_helper started, and a spawn_helper
\* that failed has left no child running.
C17_Original ==
    /\ \A c, d \in 1..Len(clients) : c # d => clients[c].process # clients[d].process
    /\ \A t \in Threads :
          /\ sp[t].res.kind = "return" => clients[sp[t].res.client].process = sp[t].process
          /\ (SpawnEnded(t) /\ sp[t].res.kind = "raise") =>
                (sp[t].process = 0 \/ procs[sp[t].process].st = "exited")

\* ------------------------------------------- properties: failures of call
\* CCError and its subclasses in _ERROR_MAP
CCErrorClasses == {ErrorClassOf(code) : code \in 0..9}
\* The kinds an error response can carry: the codes of _ERROR_MAP.
WireKinds == 1..9

\* C18 as stated: a call that fails raises CCError or one of its subclasses.
C18_Original ==
    \A t \in Threads :
       (CallEnded(t) /\ result[t].kind = "raise") => result[t].cls \in CCErrorClasses

\* C19 as stated: the failure a call raises when the helper disconnects
\* carries a kind that no error response can carry.
C19_Original ==
    \A t \in Threads :
       (CallEnded(t) /\ result[t].lit = "Connection closed by helper") =>
          result[t].code \notin WireKinds

\* ------------------------------------------------- properties: IPCBackend
\* The operation code the protocol names after each operation.
OpCode ==
    [instance_new |-> MSG_INSTANCE_NEW, instance_close |-> MSG_INSTANCE_CLOSE,
     instance_wait |-> MSG_INSTANCE_WAIT, instance_id |-> MSG_INSTANCE_ID,
     instance_is_running |-> MSG_INSTANCE_IS_RUNNING,
     instance_set_console |-> MSG_INSTANCE_SET_CONSOLE,
     instance_set_network |-> MSG_INSTANCE_SET_NETWORK,
     instance_exec |-> MSG_INSTANCE_EXEC,
     file_close |-> MSG_FILE_CLOSE, file_read |-> MSG_FILE_READ,
     file_write |-> MSG_FILE_WRITE, file_seek |-> MSG_FILE_SEEK,
     file_sync |-> MSG_FILE_SYNC, file_truncate |-> MSG_FILE_TRUNCATE,
     file_stat |-> MSG_FILE_STAT, file_name |-> MSG_FILE_NAME,
     fs_open |-> MSG_FS_OPEN]

\* C20: an operation of the backend that reached the transport has issued
\* exactly one call, carrying the operation code the protocol names after that
\* operation, and whatever the call gave it (a result, a remote error, a
\* malformed response, a broken connection) it sends nothing more; an
\* operation that failed before the transport has sent nothing; no two
\* operations share a code.
C20_OneCallPerOperation ==
    /\ Len(fac.sent) <= 1
    /\ fac.resp.kind # "none" =>
          /\ Len(fac.sent) = 1
          /\ fac.sent[1].msg_type = OpCode[fac.op]
          /\ fac.sent[1].msg_type \notin {MSG_RESPONSE, MSG_ERROR}
    /\ fac.resp.kind = "none" => fac.sent = <<>>
    /\ \A o1, o2 \in FacadeOps : o1 # o2 => facade_msg(o1) # facade_msg(o2)

\* A second operation, instance_wait on the client the first one spawned, has
\* returned after its one call.
C20_Witness ==
    /\ fac.pc = "idle" /\ facLeft = 0
    /\ fac.op = "instance_wait"
    /\ fac.spawns = 1
    /\ fac.res.kind = "return"
    /\ Len(fac.sent) = 1

\* The payload is cut short of a well-formed result of the operation.
ShortFor(op, p) ==
    /\ p \notin ResultPayloads(op)
    /\ \E w \in ResultPayloads(op) : IsPrefix(p, w)

\* C21: an operation whose call returned a non-error response with a payload
\* shorter than the shape of its result (the empty payload included) ends by
\* raising ValueError, which is not CCError nor one of its subclasses, the
\* classes of application-level errors; it returns no value.
C21_ShortIsProtocolViolation ==
    (fac.pc = "idle" /\ fac.resp.kind = "return" /\ ShortFor(fac.op, fac.resp.value)) =>
        /\ fac.res = Foreign("ValueError")
        /\ fac.res.kind = "raise"
        /\ fac.res.cls \notin CCErrorClasses
        /\ fac.res.value = <<>>

\* fs_open got the status byte and four of the eight bytes of the handle.
C21_Witness ==
    /\ fac.pc = "idle" /\ fac.op = "fs_open"
    /\ fac.resp = Return(<<ERR_CODE_OK, 0, 0, 0, 0>>)
    /\ fac.res = Foreign("ValueError")

\* ------------------------------------------------------ properties: codec
\* The number of bytes a fixed-width read takes.
Width == [uint8 |-> 1, uint16 |-> 2, uint32 |-> 4, uint64 |-> 8, int32 |-> 4,
          int64 |-> 8, decode_bool |-> 1]

\* C22: whatever the buffer and the reads made on it, the position of a
\* Decoder stays between 0 and the length of the buffer and never moves back;
\* a fixed-width read succeeds exactly when its bytes remain and then takes
\* exactly them, a length-prefixed read whose length exceeds what remains
\* fails; a read that lacks bytes raises ValueError, and the bytes a read
\* returns are bytes of the buffer.
C22_PositionInBounds ==
    LET last == cod.last
        n == Len(cod.buf)
        declared == FromBE(SubSeq(cod.buf, last.from + 1, last.from + 4))
    IN
    /\ 0 <= cod.pos /\ cod.pos <= n
    /\ last.method # "" =>
          /\ last.from <= cod.pos
          /\ ~last.ok => last.exc \in {"ValueError", "UnicodeDecodeError"}
          /\ last.exc = "UnicodeDecodeError" => last.method \in {"string", "string_slice"}
          /\ last.method \in DOMAIN Width =>
                IF last.from + Width[last.method] <= n
                THEN last.ok /\ cod.pos = last.from + Width[last.method]
                ELSE ~last.ok /\ last.exc = "ValueError" /\ cod.pos = last.from
          /\ last.method \in {"string", "read_bytes", "string_slice"} /\ last.from + 4 > n =>
                ~last.ok /\ last.exc = "ValueError" /\ cod.pos = last.from
          /\ last.method \in {"string", "read_bytes"} /\ last.from + 4 <= n =>
                IF last.from + 4 + declared > n
                THEN ~last.ok /\ last.exc = "ValueError" /\ cod.pos = last.from + 4
                ELSE last.ok => cod.pos = last.from + 4 + declared
          /\ last.method = "read_bytes" /\ last.ok =>
                last.v = SubSeq(cod.buf, last.from + 5, cod.pos)

\* After the status byte, read_bytes found a length of 2 with one byte left.
C22_Witness ==
    /\ cod.buf = <<0, 0, 0, 0, 2, 1>>
    /\ cod.last.method = "read_bytes" /\ cod.last.from = 1
    /\ ~cod.last.ok /\ cod.last.exc = "ValueError"
    /\ cod.pos = 5

\* The classes of the nine kinds, by code.
KindClasses ==
    <<"InvalidHandleError", "InvalidArgumentError", "NotRunningError",
      "AlreadyClosedError", "TimeoutError", "HypervisorUnavailableError", "IOError",
      "NetworkError", "CancelledError">>

\* C23: decoding an error payload whose code byte is 0 gives None and leaves
\* the decoder after that byte, whatever follows it; a payload with a
\* non-zero code, a message, an operation and a path gives an error with
\* exactly that code and message, the operation and the path as given or
\* None when empty, of the class of the code (1 to 9: the nine kinds, any
\* other code: CCError), and leaves the decoder after the path.
C23_ErrorDecoding ==
    cod.done =>
        IF cod.code = 0
        THEN cod.res = Return(<<>>) /\ cod.pos = 1
        ELSE ~cod.bare =>
                /\ cod.res.kind = "raise"
                /\ cod.res.code = cod.code
                /\ cod.res.message = cod.message
                /\ cod.res.op = (IF cod.op = <<>> THEN None ELSE Some(cod.op))
                /\ cod.res.path = (IF cod.path = <<>> THEN None ELSE Some(cod.path))
                /\ cod.res.cls = (IF cod.code \in 1..9 THEN KindClasses[cod.code] ELSE "CCError")
                /\ cod.pos = Len(ErrorBuffer(cod)) - Len(cod.extra)

\* Code 99 with a message, an operation and no path has been decoded.
C23_Witness ==
    /\ cod.done /\ cod.code = 99 /\ ~cod.bare
    /\ cod.message = <<233, 8364>> /\ cod.op = <<101>> /\ cod.path = <<>>
    /\ cod.res.cls = "CCError" /\ cod.res.path = None

IsRequestFrame(t, bs) ==
    /\ Len(bs) = 6 + Len(loc[t].payload)
    /\ bs[1] * 256 + bs[2] = loc[t].msg_type
    /\ ((bs[3] * 256 + bs[4]) * 256 + bs[5]) * 256 + bs[6] = Len(loc[t].payload)
    /\ SubSeq(bs, 7, Len(bs)) = loc[t].payload

\* The call of the thread has read a byte of the response or seen its end.
HasRead(t) == gh[t].taken # <<>> \/ gh[t].hdr # <<>> \/ gh[t].eof

\* C26 as claimed: whatever a call has put on the wire once it is past its
\* sends is one whole well-formed frame.
C26_Original ==
    \A t \in Threads :
        (gh[t].op = "call" /\ gh[t].sent # <<>> /\ pc[t] # "send_payload") =>
            IsRequestFrame(t, gh[t].sent)

\* C26, amended: a call that goes on to read has put exactly one well-formed
\* frame on the wire before it reads the first byte of the response, and
\* sends nothing after it; a call puts less than a frame on the wire only
\* when the send of the payload fails after the header went out, and then it
\* raises OSError without reading.
C26_FrameBeforeRead ==
    \A t \in Threads :
        gh[t].op = "call" =>
            /\ (pc[t] \in {"recv_header", "recv_payload", "dispatch"} \/ HasRead(t)) =>
                  IsRequestFrame(t, gh[t].sent)
            /\ (gh[t].sent # <<>> /\ ~IsRequestFrame(t, gh[t].sent)) =>
                  /\ IsRequestFrame(t, gh[t].sent \o loc[t].payload)
                  /\ loc[t].payload # <<>>
                  /\ \/ pc[t] = "send_payload"
                     \/ pc[t] = "idle" /\ result[t] = Foreign("OSError") /\ ~HasRead(t)

\* A call with a payload has sent its frame and read a whole response.
C26_Witness ==
    \E t \in Threads :
        /\ gh[t].op = "call" /\ pc[t] = "idle" /\ result[t].kind = "return"
        /\ loc[t].payload # <<>>
        /\ gh[t].sent = <<2, 3, 0, 0, 0, 1, Marker(t)>>
        /\ gh[t].complete

\* ---------------------------------------------- properties: the call lock
\* The thread is inside the with block of call().
HoldsInCall(t) ==
    pc[t] \in {"call_check", "send_header", "send_payload", "recv_header",
               "recv_payload", "dispatch"}

\* C27: the lock is held only by a thread inside the with block of call():
\* a call that has ended, however it ended (return, remote error, disconnect,
\* closed client, decode failure, failure of the socket), does not hold it,
\* and when no thread is inside call() the lock is free for the next caller.
C27_LockReleased ==
    /\ \A t \in Threads : lock = t => HoldsInCall(t)
    /\ \A t \in Threads : (gh[t].op = "call" /\ pc[t] = "idle") => lock # t
    /\ (\A t \in Threads : ~HoldsInCall(t)) => lock = NoThread
    /\ lock \in Threads \cup {NoThread}

\* One thread's call has ended with a decode failure and the other thread has
\* taken the lock after it.
C27_Witness ==
    \E t, u \in Threads :
        /\ t # u
        /\ gh[t].op = "call" /\ pc[t] = "idle" /\ result[t] = Foreign("ValueError")
        /\ lock = u /\ pc[u] = "call_check"

\* ------------------------------------ properties: error response, code 0
\* The call of the thread has read a whole response and ended on it.
EndedOnResponse(t) == gh[t].op = "call" /\ pc[t] = "idle" /\ gh[t].complete

\* C30: a call whose response carries the error operation code never returns
\* a value; when the code byte of that response's payload is 0 the call
\* raises CCError "Unknown error from helper" with kind 99.
C30_ErrorCodeZero ==
    \A t \in Threads :
        (EndedOnResponse(t) /\ loc[t].resp_type = MSG_ERROR) =>
            /\ result[t].kind = "raise"
            /\ (loc[t].resp_payload # <<>> /\ loc[t].resp_payload[1] = 0) =>
                  /\ result[t] = CCError("Unknown error from helper", CODE_UNKNOWN_ERROR)
                  /\ result[t].cls = "CCError"
                  /\ result[t].code = 99

\* A call has ended on an error response whose payload is the code byte 0.
C30_Witness ==
    \E t \in Threads :
        /\ EndedOnResponse(t)
        /\ loc[t].resp_type = MSG_ERROR /\ loc[t].resp_payload = <<0>>
        /\ result[t].code = 99

\* ---------------------------------------- properties: OCIClient, CancelToken
\* C28 as claimed: reading cache_dir of an OCIClient that has been closed
\* raises CCError, whichever the package and the backend.
C28_Original ==
    (api.mode = "api" /\ api.last.op = "cache_dir" /\ api.last.closedBefore) =>
        /\ api.last.res.kind = "raise"
        /\ api.last.res.cls \in CCErrorClasses

RECURSIVE Repeat(_, _)
Repeat(ms, n) == IF n = 0 THEN <<>> ELSE ms \o Repeat(ms, n - 1)

RECURSIVE Flat(_)
Flat(items) == IF items = <<>> THEN <<>> ELSE Head(items) \o Flat(Tail(items))

\* The reads that take an encoded option record apart, for n elements.
OptionReads(kind, n) ==
    CASE kind = "instance_options" ->
            <<"uint64", "int32", "uint64", "string", "decode_bool", "uint32">>
            \o Repeat(<<"string", "string", "decode_bool">>, n)
      [] kind = "snapshot_options" -> <<"uint32">> \o Repeat(<<"string">>, n) \o <<"string">>
      [] OTHER -> <<"read_bytes", "string", "string", "uint32">> \o Repeat(<<"string", "string">>, n)

\* The values those reads are to give: the scalar fields, the count, and the
\* elements in their original order.
OptionValues(kind, scalars, items) ==
    CASE kind = "instance_options" -> scalars \o <<Len(items)>> \o Flat(items)
      [] kind = "snapshot_options" -> <<Len(items)>> \o items \o scalars
      [] OTHER -> scalars \o <<Len(items)>> \o Flat(items)

\* C31: an encoded option record reads back as its scalar fields, a 4-byte
\* count equal to the number of elements, and the elements in their original
\* order (mounts as tag, host path, writable; excludes; build arguments as
\* key then value in the dict's insertion order), with no byte left over.
C31_SequenceEncoding ==
    (cod.mode = "options" /\ cod.kind # "none") =>
        LET reads == OptionReads(cod.kind, Len(cod.items))
            r == Decoder_reads(reads, cod.out, 0)
        IN  /\ r.ok
            /\ r.vals = OptionValues(cod.kind, cod.scalars, cod.items)
            /\ ~Decoder_reads(reads \o <<"uint8">>, cod.out, 0).ok

\* Two build arguments B then A, and two different excludes, have been encoded.
C31_Witness ==
    /\ cod.mode = "options"
    /\ cod.kind = "dockerfile_options"
    /\ cod.items = <<<<<<66>>, <<49>>>>, <<<<65>>, <<>>>>>>
    /\ Len(cod.out) > 4

\* ------------------------------------------- properties: the facade's client
\* What a step of the backend may do to its client.
ClientStep ==
    /\ fac'.spawns # fac.spawns =>
          /\ fac.pc = "ensure" /\ fac.client \in {"none", "closed"}
          /\ fac'.spawns = fac.spawns + 1 /\ fac'.client = "open"
    /\ (fac.pc = "ensure" /\ fac.client = "open") =>
          /\ fac'.client = "open" /\ fac'.spawns = fac.spawns /\ fac'.pc = "call"
    /\ (fac.pc = "idle" /\ fac'.pc = "idle" /\ fac'.op = "close") =>
          /\ fac'.spawns = fac.spawns
          /\ fac'.client # "open"
          /\ (fac.client = "none" => (fac'.client = "none" /\ fac'.live = fac.live))

ClosedStep == closed' # closed => (closed' /\ \E t \in Threads : pc[t] = "close_set")

\* C33: no step of call(), a failing one included, changes the closed flag:
\* it is set by close() alone; and a call() fails fast with the
\* closed-connection error only when the flag is set, so after a failed call
\* on a connection nobody closed the next call() goes to the socket.
C33_FailureLeavesOpen ==
    /\ [](\A t \in Threads :
            /\ result[t] = CCError("Client closed", CODE_CLIENT_CLOSED) => closed
            /\ (gh[t].op = "call" /\ pc[t] = "idle" /\ ~closed /\ result[t].kind = "raise")
                  => gh[t].io)
    /\ [][ClosedStep]_vars

\* One call failed because the helper went away in the middle of its
\* exchange; the connection is still not closed, and the next call went to
\* the same socket and failed in sendall.
C33_Witness ==
    /\ ~closed
    /\ \E t1, t2 \in Threads :
          /\ t1 # t2 /\ pc[t1] = "idle" /\ pc[t2] = "idle"
          /\ result[t1] = CCError("Connection closed by helper", CODE_CONNECTION_CLOSED)
          /\ gh[t2].op = "call" /\ gh[t2].io
          /\ result[t2] = Foreign("OSError")

\* ----------------------------------------- properties: the status byte
\* The operation has ended after a non-error response whose payload starts
\* with a non-zero status byte.
StatusNonZero ==
    /\ fac.pc = "idle" /\ fac.resp.kind = "return"
    /\ fac.resp.value # <<>> /\ fac.resp.value[1] # ERR_CODE_OK

\* C34 as claimed: with a non-zero status byte the operation raises the
\* error decoded from the message, operation and path that follow.
C34_Original ==
    StatusNonZero =>
        /\ fac.res.kind = "raise"
        /\ fac.res.cls \in CCErrorClasses
        /\ fac.res.code = fac.resp.value[1]

\* C34: an operation returns a result only when the status byte of the
\* response payload is 0. With a non-zero status byte it returns nothing: it
\* raises the error of that code decoded from the message, operation and
\* path that follow (an empty operation or path taken as absent) when the
\* payload holds all three, and ValueError when the payload ends before.
C34_StatusByte ==
    (fac.pc = "idle" /\ fac.resp.kind = "return") =>
        /\ fac.res.kind = "return" =>
              (fac.resp.value # <<>> /\ fac.resp.value[1] = ERR_CODE_OK)
        /\ StatusNonZero =>
              /\ fac.res.kind = "raise" /\ fac.res.value = <<>>
              /\ IF \E e \in StatusErrors :
                       fac.resp.value = ErrorPayload(e[1], e[2], e[3], e[4])
                 THEN \E e \in StatusErrors :
                       /\ fac.resp.value = ErrorPayload(e[1], e[2], e[3], e[4])
                       /\ fac.res = error_from_code(e[1], e[2],
                                        IF e[3] = <<>> THEN None ELSE Some(e[3]),
                                        IF e[4] = <<>> THEN None ELSE Some(e[4]))
                 ELSE fac.res = Foreign("ValueError")

\* fs_open got status 4 with message, operation and path and raised the
\* already-closed error that names them.
C34_Witness ==
    /\ fac.pc = "idle" /\ fac.op = "fs_open"
    /\ fac.resp = Return(ErrorPayload(4, <<101>>, <<111>>, <<47>>))
    /\ fac.res = error_from_code(4, <<101>>, Some(<<111>>), Some(<<47>>))

\* ------------------------------------------------- properties: connect_to
\* A close() of the client connect_to returned went through the teardown and
\* returned.
ConnectedTornDown(t) ==
    /\ api.made = "connect_to"
    /\ CloseEnded(t) /\ gh[t].tore /\ result[t].kind = "return"

\* C35 as claimed: once such a close() has returned, the endpoint path is
\* removed.
C35_Original ==
    api.mode = "connect" => \A t \in Threads : ConnectedTornDown(t) => ~socketFile

\* C35: a client made by connect_to has no process, and no close() of it
\* waits for or kills one; a close() of it that went through the teardown
\* has still tried to remove the endpoint path, which is gone unless every
\* os.remove attempt failed (one, five on Windows). A connect_to that fails
\* has closed the one socket it created, raises the connection failure
\* (code 7), and no client exists to operate on.
C35_ConnectToOwnsNoProcess ==
    api.mode = "connect" =>
       /\ api.made = "connect_to" =>
             /\ process = "none" /\ nProcWait = 0
             /\ \A t \in Threads :
                   /\ gh[t].cWait = 0 /\ gh[t].cKill = 0
                   /\ pc[t] \notin {"close_wait", "close_kill"}
                   /\ ConnectedTornDown(t) =>
                         /\ gh[t].cRm >= 1
                         /\ nRemove >= 1
                         /\ socketFile =>
                               gh[t].cRm = (IF isWindows THEN REMOVE_ATTEMPTS_WINDOWS ELSE 1)
       /\ api.made = "failed" =>
             /\ api.res = CCError("Failed to connect to cc-helper", CODE_CONNECT_FAILED)
             /\ api.socks = 1 /\ api.closedSocks = 1
             /\ opsLeft = 0
             /\ \A t \in Threads : pc[t] = "idle" /\ gh[t].op = "none"

\* A client made by connect_to has been closed: socket closed, no wait, the
\* endpoint file removed.
C35_Witness ==
    /\ api.mode = "connect" /\ api.made = "connect_to"
    /\ \E t \in Threads : ConnectedTornDown(t) /\ gh[t].cRm = 1
    /\ nSockClose = 1 /\ nProcWait = 0 /\ ~socketFile

\* ---------------------------------------------------------- properties: Cmd
\* Entry j of the history started the command: a start request that
\* succeeded, or run, output or combined_output invoked.
StartedAt(j) ==
    \/ api.hist[j].op = "start" /\ api.hist[j].ok
    \/ api.hist[j].op \in CmdRunMethods

\* Entry j of the history is a release request that succeeded.
ReleasedAt(j) == api.hist[j].req \in {"cmd_free", "cmd_kill"} /\ api.hist[j].ok

\* C36: a Cmd sends no free request after it was started (a start request
\* that succeeded, or run, output or combined_output) and none after a kill
\* that succeeded; at most one of its release requests (free, kill) succeeds;
\* kill after a release that succeeded sends nothing.
C36_ReleaseOnce ==
    api.mode = "cmd" =>
       LET n == Len(api.hist) IN
       /\ \A i \in 1..n : \A j \in 1..n :
             (j < i /\ api.hist[i].req = "cmd_free") =>
                (~StartedAt(j) /\ ~(api.hist[j].req = "cmd_kill" /\ api.hist[j].ok))
       /\ Cardinality({j \in 1..n : ReleasedAt(j)}) <= 1
       /\ \A i \in 1..n : \A j \in 1..n :
             (j < i /\ ReleasedAt(j) /\ api.hist[i].op = "kill") =>
                (api.hist[i].req = "" /\ api.hist[i].res = Return(<<>>))

\* The command was started, then killed, and the finalizer sent nothing.
C36_Witness ==
    /\ api.mode = "cmd" /\ Len(api.hist) = 3
    /\ api.hist[1].op = "start" /\ api.hist[1].ok
    /\ api.hist[2].req = "cmd_kill" /\ api.hist[2].ok
    /\ api.hist[3].op = "_free" /\ api.hist[3].req = ""

\* The started flag before entry i of the history.
StartedBefore(i) == IF i = 1 THEN FALSE ELSE api.hist[i - 1].started

\* start() on a started command and wait() on one never started fail with
\* invalid-argument, send nothing and leave the flag as it was.
CmdRefusals ==
    \A i \in 1..Len(api.hist) :
       /\ (api.hist[i].op = "start" /\ StartedBefore(i)) =>
             /\ api.hist[i].res.kind = "raise" /\ api.hist[i].res.code = 2
             /\ api.hist[i].req = "" /\ api.hist[i].started = StartedBefore(i)
       /\ (api.hist[i].op = "wait" /\ ~StartedBefore(i)) =>
             /\ api.hist[i].res.kind = "raise" /\ api.hist[i].res.code = 2
             /\ api.hist[i].req = "" /\ api.hist[i].started = StartedBefore(i)

\* C37 as claimed: besides the two refusals, the started flag is true only
\* after a request that starts the command (start, or run, output,
\* combined_output) has succeeded.
C37_Original ==
    api.mode = "cmd" =>
       /\ CmdRefusals
       /\ api.started =>
             \E j \in 1..Len(api.hist) :
                /\ api.hist[j].req \in {"cmd_start", "cmd_run", "cmd_output",
                                        "cmd_combined_output"}
                /\ api.hist[j].ok

\* C37: the two refusals; start() sets the started flag only after its start
\* request succeeded, while run, output and combined_output set it before
\* they send their request, whatever becomes of it; nothing else sets the
\* flag and nothing resets it.
C37_StartedFlag ==
    api.mode = "cmd" =>
       /\ CmdRefusals
       /\ \A i \in 1..Len(api.hist) :
             api.hist[i].started <=> (StartedBefore(i) \/ StartedAt(i))
       /\ api.started = (\E j \in 1..Len(api.hist) : StartedAt(j))

\* run() failed, and the start() after it was refused though no start
\* request was ever sent.
C37_Witness ==
    /\ api.mode = "cmd" /\ Len(api.hist) = 2
    /\ api.hist[1].op = "run" /\ ~api.hist[1].ok
    /\ api.hist[2].op = "start" /\ api.hist[2].req = ""
    /\ api.hist[2].res = CCError("Cmd has already been started", CODE_CMD_STARTED)


\* C38: for a File, Snapshot, Listener or Conn of the helper backend the
\* close request succeeds at most once over any sequence of close(),
\* __exit__ and __del__, and after it has succeeded every guarded method
\* (read, write, seek, sync, truncate, stat / cache_key, parent, as_source /
\* accept / read, write) raises CCError code 4 without sending a request.
CloseSucceededAt(i) ==
    /\ api.hist[i].req = BackendMethod(api.kind, "close")
    /\ api.hist[i].ok

C38_CloseOnce ==
    api.mode = "resource" =>
        \A i \in DOMAIN api.hist : CloseSucceededAt(i) =>
            \A j \in DOMAIN api.hist : j > i =>
                /\ ~CloseSucceededAt(j)
                /\ api.hist[j].op \in CloseWays => api.hist[j].req = ""
                /\ api.hist[j].op \in GuardedMethods(api.kind) =>
                       /\ api.hist[j].req = ""
                       /\ api.hist[j].res.kind = "raise"
                       /\ api.hist[j].res.code = CODE_RESOURCE_CLOSED
                       /\ api.hist[j].res = CCError(ClosedLiteral(api.kind), CODE_RESOURCE_CLOSED)

C38_Witness ==
    /\ api.mode = "resource"
    /\ Len(api.hist) = 3
    /\ ~api.hist[1].ok /\ api.hist[1].req = BackendMethod(api.kind, "close")
    /\ CloseSucceededAt(2)
    /\ api.hist[3].op \in GuardedMethods(api.kind)
    /\ api.hist[3].req = ""

\* C39: an Instance whose creation through the helper failed stays closed
\* and never sends instance_close; for one that was created, instance_close
\* succeeds at most once, and after it id gives "" and is_running gives
\* false without a request.
InstanceCloseSucceededAt(i) ==
    /\ api.hist[i].req = "instance_close"
    /\ api.hist[i].ok

C39_InstanceClose ==
    (api.mode = "instance" /\ api.hist # <<>>) =>
        /\ ~api.hist[1].ok =>
               \A j \in DOMAIN api.hist :
                   api.hist[j].closed /\ api.hist[j].req # "instance_close"
        /\ \A i \in DOMAIN api.hist : InstanceCloseSucceededAt(i) =>
               \A j \in DOMAIN api.hist : j > i =>
                   /\ api.hist[j].req = ""
                   /\ api.hist[j].op = "id" => api.hist[j].res = Return(<<>>)
                   /\ api.hist[j].op = "is_running" => api.hist[j].res = Return(<<0>>)

C39_Witness ==
    /\ api.mode = "instance"
    /\ Len(api.hist) = 4
    /\ InstanceCloseSucceededAt(2)
    /\ api.hist[3].op = "id"
    /\ api.hist[4].op = "is_running"

C39_WitnessFailed ==
    /\ api.mode = "instance"
    /\ Len(api.hist) = 3
    /\ ~api.hist[1].ok
    /\ api.hist[2].op = "close"
    /\ api.hist[3].op = "__del__"


====
